---- MODULE Spec2Model ----
(***************************************************************************)
(* A model of the rouge-ecs runtime: the sparse containers, the entity     *)
(* allocator, the archetype index, the table store, the deferred command   *)
(* buffer of the world with its flush loop, the query engine, the system   *)
(* graph, the parallel runner with its countdown barrier, and the Actions  *)
(* resource of the observer module.                                        *)
(*                                                                         *)
(* Specifications: Spec (the world: runs of a phase and their flushes),    *)
(* GraphSpec (add_system and build), RunnerSpec (ParallelRunner::run over  *)
(* built graphs), QueueSpec (the Actions resource of the observer module). *)
(***************************************************************************)
EXTENDS Integers, Sequences, FiniteSets, TLC

(***************************************************************************)
(* Bounds of the model.                                                    *)
(***************************************************************************)
\* number of run::<P>() calls explored
MaxRuns == 3
\* number of commands the systems push into the buffer, over all the runs
MaxPending == 4
\* number of entity indices the allocator may hand out
MaxIndex == 2
\* number of nodes of the system graph
MaxNodes == 3
\* std::thread::available_parallelism() of the machine
AvailableParallelism == 2
\* number of calls of World::register
MaxRegistrations == 5
\* number of rows of a table
MaxRows == 3

\* the largest key of a SparseSet
MaxKey == 2
\* the largest size of an element of a Blob
MaxSize == 3
\* the largest capacity a Blob is made with
MaxCapacity == 2
\* the number of elements made for a Blob
MaxElems == 3
\* the largest size of a TaskPool
MaxWorkers == 3
\* the number of jobs handed to a TaskPool
MaxJobs == 2

(***************************************************************************)
(* Small input domains.                                                    *)
(***************************************************************************)
\* registered component ids: C = 0, D = 1
ComponentIds == {0, 1}
\* component values
Values == {1, 2}

(***************************************************************************)
(* Option values and results of operations that may panic.                 *)
(***************************************************************************)
None == [tag |-> "none"]
Panic == [tag |-> "panic"]
Some(x) == [tag |-> "some", val |-> x]

IsSome(o) == o.tag = "some"
IsNone(o) == o.tag = "none"
IsPanic(o) == o.tag = "panic"

\* result of a mutating operation: the new state, the returned option
Res(st, ret) == [st |-> st, ret |-> ret]

(***************************************************************************)
(* Sequence helpers (Vec).                                                 *)
(***************************************************************************)
\* Vec::swap_remove(i), 0-based; the caller guarantees i < len
Vec_swap_remove(v, i) ==
    LET n == Len(v)
        moved == [v EXCEPT ![i + 1] = v[n]]
    IN  SubSeq(moved, 1, n - 1)

\* slice::contains
Vec_contains(v, x) == \E i \in 1..Len(v) : v[i] = x

\* Vec::retain(|c| *c != x)
RECURSIVE Vec_without(_, _)
Vec_without(v, x) ==
    IF v = <<>> THEN <<>>
    ELSE IF Head(v) = x THEN Vec_without(Tail(v), x)
         ELSE <<Head(v)>> \o Vec_without(Tail(v), x)

\* insertion of x into an ascending sequence
RECURSIVE InsertSorted(_, _)
InsertSorted(v, x) ==
    IF v = <<>> THEN <<x>>
    ELSE IF x <= Head(v) THEN <<x>> \o v
         ELSE <<Head(v)>> \o InsertSorted(Tail(v), x)

\* Vec::sort on component ids
RECURSIVE Vec_sort(_)
Vec_sort(v) == IF v = <<>> THEN <<>> ELSE InsertSorted(Vec_sort(Tail(v)), Head(v))

(***************************************************************************)
(* storage/sparse.rs: SparseArray<usize>, slots are -1 (None) or a value.  *)
(***************************************************************************)
SparseArray_new == <<>>

\* SparseArray::insert: resize_with(index + 1, None) when needed, then store
SparseArray_insert(values, index, value) ==
    LET n == Len(values)
        grown == IF index >= n
                 THEN values \o [k \in 1..(index + 1 - n) |-> -1]
                 ELSE values
    IN  [grown EXCEPT ![index + 1] = value]

\* SparseArray::get: values.get(index).map(|v| v.as_ref().unwrap())
SparseArray_get(values, index) ==
    IF index >= Len(values) THEN None
    ELSE IF values[index + 1] = -1 THEN Panic
    ELSE Some(values[index + 1])

\* SparseArray::remove: values.get_mut(index).map(|v| v.take().unwrap())
SparseArray_remove(values, index) ==
    IF index >= Len(values) THEN Res(values, None)
    ELSE IF values[index + 1] = -1 THEN Res(values, Panic)
    ELSE Res([values EXCEPT ![index + 1] = -1], Some(values[index + 1]))

\* SparseArray::contains: values.get(index).is_some()
SparseArray_contains(values, index) == index < Len(values)

(***************************************************************************)
(* storage/sparse.rs: SparseSet<V> = (values, indices, array).             *)
(***************************************************************************)
SparseSet_new == [values |-> <<>>, indices |-> <<>>, array |-> SparseArray_new]

\* SparseSet::insert
SparseSet_insert(set, index, value) ==
    LET m == SparseArray_get(set.array, index)
    IN  IF IsPanic(m) THEN Res(set, Panic)
        ELSE IF IsSome(m)
        THEN IF m.val < Len(set.values)
             THEN Res([set EXCEPT !.values[m.val + 1] = value], None)
             ELSE Res(set, Panic)
        ELSE Res([values |-> Append(set.values, value),
                  indices |-> Append(set.indices, index),
                  array |-> SparseArray_insert(set.array, index, Len(set.values))],
                 None)

\* SparseSet::get
SparseSet_get(set, index) ==
    LET m == SparseArray_get(set.array, index)
    IN  IF ~IsSome(m) THEN m
        ELSE IF m.val < Len(set.values) THEN Some(set.values[m.val + 1])
        ELSE Panic

\* the key whose sparse entry SparseSet::remove rewrites after the swap:
\* indices.swap_remove(mapped_index) returns the removed key itself
SparseSet_repatched(indices, mapped_index) == indices[mapped_index + 1]

\* SparseSet::remove
SparseSet_remove(set, index) ==
    LET r == SparseArray_remove(set.array, index)
    IN  IF ~IsSome(r.ret) THEN Res(set, r.ret)
        ELSE LET m == r.ret.val
             IN  IF m >= Len(set.values) THEN Res(set, Panic)
                 ELSE LET key == SparseSet_repatched(set.indices, m)
                      IN  Res([values |-> Vec_swap_remove(set.values, m),
                               indices |-> Vec_swap_remove(set.indices, m),
                               array |-> SparseArray_insert(r.st, key, m)],
                              Some(set.values[m + 1]))

\* SparseSet::contains
SparseSet_contains(set, index) == SparseArray_contains(set.array, index)

(***************************************************************************)
(* SparseMap<K, V>: an associative map (get / insert / remove by key).     *)
(***************************************************************************)
SparseMap_new == <<>>

SparseMap_contains(map, key) == key \in DOMAIN map

SparseMap_insert(map, key, value) ==
    [k \in (DOMAIN map) \cup {key} |-> IF k = key THEN value ELSE map[k]]

SparseMap_remove(map, key) == [k \in (DOMAIN map) \ {key} |-> map[k]]

SparseMap_values(map) == {map[k] : k \in DOMAIN map}

(***************************************************************************)
(* core/entity.rs: Entity = <<id, generation>>, Entities over IdAllocator. *)
(***************************************************************************)
Entity_new(id, generation) == <<id, generation>>
Entity_id(e) == e[1]
Entity_generation(e) == e[2]

\* IdAllocator: stored generation and liveness per index, free list
IdAllocator_new == [gens |-> <<>>, alive |-> <<>>, free |-> <<>>]

\* IdAllocator::is_alive: index allocated and generations match
IdAllocator_is_alive(al, e) ==
    /\ Entity_id(e) < Len(al.gens)
    /\ al.alive[Entity_id(e) + 1]
    /\ al.gens[Entity_id(e) + 1] = Entity_generation(e)

\* the entity IdAllocator::allocate returns: a reused index with its bumped
\* generation when the free list is not empty, else a fresh index
IdAllocator_next(al) ==
    IF al.free # <<>>
    THEN LET i == al.free[Len(al.free)] IN Entity_new(i, al.gens[i + 1])
    ELSE Entity_new(Len(al.gens), 0)

\* IdAllocator::allocate
IdAllocator_allocate(al) ==
    IF al.free # <<>>
    THEN LET i == al.free[Len(al.free)]
         IN  [al EXCEPT !.free = SubSeq(al.free, 1, Len(al.free) - 1),
                        !.alive[i + 1] = TRUE]
    ELSE [al EXCEPT !.gens = Append(al.gens, 0), !.alive = Append(al.alive, TRUE)]

\* IdAllocator::free: bumps the stored generation, pushes the index
IdAllocator_free(al, e) ==
    IF IdAllocator_is_alive(al, e)
    THEN [gens |-> [al.gens EXCEPT ![Entity_id(e) + 1] = @ + 1],
          alive |-> [al.alive EXCEPT ![Entity_id(e) + 1] = FALSE],
          free |-> Append(al.free, Entity_id(e))]
    ELSE al

\* Entities::contains
Entities_contains(al, e) == IdAllocator_is_alive(al, e)

\* Entities::create (the entity is IdAllocator_next of the old state)
Entities_create(al) == IdAllocator_allocate(al)

\* Entities::destroy
Entities_destroy(al, e) == IdAllocator_free(al, e)

(***************************************************************************)
(* archetype/mod.rs                                                        *)
(***************************************************************************)
\* ArchetypeId::new: the hash of the sorted component list, modelled by the
\* sorted list itself (an injective hash)
ArchetypeId_new(components) == Vec_sort(components)

Archetype_new(id, components) ==
    [id |-> id, entities |-> SparseMap_new, components |-> components]

\* Archetype::added
Archetype_added(archetype, component) == Append(archetype.components, component)

\* Archetype::removed
Archetype_removed(archetype, component) == Vec_without(archetype.components, component)

Archetypes_new ==
    [archetypes |-> SparseMap_new, entities |-> SparseSet_new, components |-> SparseMap_new]

\* Archetypes::archetype_id
Archetypes_archetype_id(a, entity) == SparseSet_get(a.entities, Entity_id(entity))

\* Archetypes::add_component_archetype
Archetypes_add_component_archetype(components, component, id) ==
    IF SparseMap_contains(components, component)
    THEN SparseMap_insert(components, component, components[component] \cup {id})
    ELSE SparseMap_insert(components, component, {id})

RECURSIVE Archetypes_index_all(_, _, _)
Archetypes_index_all(components, list, id) ==
    IF list = <<>> THEN components
    ELSE Archetypes_index_all(
            Archetypes_add_component_archetype(components, Head(list), id),
            Tail(list), id)

\* insertion of the entity into the archetype `id`, created when absent
Archetypes_enter(archetypes, id, components, entity) ==
    LET archetype == IF SparseMap_contains(archetypes, id)
                     THEN archetypes[id]
                     ELSE Archetype_new(id, components)
    IN  SparseMap_insert(archetypes, id,
            [archetype EXCEPT !.entities =
                SparseMap_insert(archetype.entities, Entity_id(entity), entity)])

\* Archetypes::add_entity, once entities.insert(entity.id(), id) returned ins
Archetypes_add_entity_with(a, entity, id, ins) ==
    IF IsPanic(ins.ret) THEN Res(a, Panic)
    ELSE Res([a EXCEPT !.entities = ins.st,
                       !.archetypes = Archetypes_enter(a.archetypes, id, <<>>, entity)],
             Some(id))

\* Archetypes::add_entity
Archetypes_add_entity(a, entity) ==
    Archetypes_add_entity_with(a, entity, ArchetypeId_new(<<>>),
        SparseSet_insert(a.entities, Entity_id(entity), ArchetypeId_new(<<>>)))

\* the body shared by Archetypes::add_component and ::remove_component, once
\* entities.insert(entity.id(), new_id) returned ins: the entity has left the
\* archetype `id` and entered the one of the list `components`
Archetypes_move_with(a, entity, id, components, new_id, ins) ==
    IF IsPanic(ins.ret) THEN Res(a, Panic)
    ELSE Res([archetypes |->
                Archetypes_enter(
                    [a.archetypes EXCEPT ![id].entities =
                        SparseMap_remove(@, Entity_id(entity))],
                    new_id, components, entity),
              entities |-> ins.st,
              components |-> Archetypes_index_all(a.components, components, new_id)],
             Some(new_id))

Archetypes_move(a, entity, id, components) ==
    Archetypes_move_with(a, entity, id, components, ArchetypeId_new(components),
        SparseSet_insert(a.entities, Entity_id(entity), ArchetypeId_new(components)))

\* Archetypes::add_component, `id` being self.entities.get(entity.id())
Archetypes_add_component_from(a, entity, component, id) ==
    IF ~IsSome(id) THEN Res(a, id)
    ELSE IF ~SparseMap_contains(a.archetypes, id.val) THEN Res(a, Panic)
    ELSE Archetypes_move(a, entity, id.val,
            Archetype_added(a.archetypes[id.val], component))

\* Archetypes::add_component
Archetypes_add_component(a, entity, component) ==
    Archetypes_add_component_from(a, entity, component,
        SparseSet_get(a.entities, Entity_id(entity)))

\* Archetypes::remove_component, `id` being self.entities.get(entity.id())
Archetypes_remove_component_from(a, entity, component, id) ==
    IF ~IsSome(id) THEN Res(a, id)
    ELSE IF ~SparseMap_contains(a.archetypes, id.val) THEN Res(a, Panic)
    ELSE Archetypes_move(a, entity, id.val,
            Archetype_removed(a.archetypes[id.val], component))

\* Archetypes::remove_component
Archetypes_remove_component(a, entity, component) ==
    Archetypes_remove_component_from(a, entity, component,
        SparseSet_get(a.entities, Entity_id(entity)))

\* Archetypes::delete_entity, `r` being self.entities.remove(entity.id())
Archetypes_delete_entity_from(a, entity, r) ==
    IF ~IsSome(r.ret) THEN Res(a, r.ret)
    ELSE IF ~SparseMap_contains(a.archetypes, r.ret.val) THEN Res(a, Panic)
    ELSE Res([a EXCEPT !.entities = r.st,
                       !.archetypes[r.ret.val].entities =
                           SparseMap_remove(@, Entity_id(entity))],
             r.ret)

\* Archetypes::delete_entity
Archetypes_delete_entity(a, entity) ==
    Archetypes_delete_entity_from(a, entity,
        SparseSet_remove(a.entities, Entity_id(entity)))

\* Archetypes::has, `id` being self.entities.get(entity.id()):
\* Some(TRUE / FALSE), or Panic
Archetypes_has_from(a, component, id) ==
    IF IsPanic(id) THEN Panic
    ELSE IF IsNone(id) THEN Some(FALSE)
    ELSE IF ~SparseMap_contains(a.archetypes, id.val) THEN Panic
    ELSE Some(Vec_contains(a.archetypes[id.val].components, component))

\* Archetypes::has
Archetypes_has(a, entity, component) ==
    Archetypes_has_from(a, component, SparseSet_get(a.entities, Entity_id(entity)))

(***************************************************************************)
(* Tables<Entity> as world/lifecycle.rs uses them: one table per archetype *)
(* id, rows of entities, one column of values per component id.            *)
(***************************************************************************)
Tables_new == SparseMap_new

\* a TableRow: the cells of one entity, component id -> value
TableRow_new == SparseMap_new

\* Table::from_row: an empty table with the columns of the row
Table_from_row(row) ==
    [rows |-> <<>>, columns |-> [c \in DOMAIN row |-> <<>>]]

\* the row index (0-based) of the entity in the table, -1 when absent
Table_row_of(table, entity) ==
    IF \E r \in 1..Len(table.rows) : table.rows[r] = entity
    THEN (CHOOSE r \in 1..Len(table.rows) : table.rows[r] = entity) - 1
    ELSE -1

\* Table::add_row(entity, row)
Table_add_row(table, entity, row) ==
    [rows |-> Append(table.rows, entity),
     columns |-> [c \in DOMAIN table.columns |->
                    IF c \in DOMAIN row
                    THEN Append(table.columns[c], row[c])
                    ELSE table.columns[c]]]

\* Table::remove_row(entity): swap-remove in rows and in every column
Table_remove_row(table, entity) ==
    LET r == Table_row_of(table, entity)
    IN  IF r < 0 THEN Res(table, None)
        ELSE Res([rows |-> Vec_swap_remove(table.rows, r),
                  columns |-> [c \in DOMAIN table.columns |->
                                 Vec_swap_remove(table.columns[c], r)]],
                 Some([c \in DOMAIN table.columns |-> table.columns[c][r + 1]]))

\* Table::get::<C>(entity, component)
Table_get(table, entity, component) ==
    LET r == Table_row_of(table, entity)
    IN  IF r < 0 \/ component \notin DOMAIN table.columns
             \/ r >= Len(table.columns[component])
        THEN None
        ELSE Some(table.columns[component][r + 1])

(***************************************************************************)
(* world/lifecycle.rs: structural changes on (archetypes, tables).  The    *)
(* state is the pair [archetypes, tables]; ret is Panic when an unwrap     *)
(* fails.                                                                  *)
(***************************************************************************)
\* LifecycleManager::create_entities, body for one entity, `added` being
\* archetypes.add_entity(entity)
Lifecycle_create_entity_with(st, entity, table_id, added) ==
    IF IsPanic(added.ret) THEN Res(st, Panic)
    ELSE Res([archetypes |-> added.st,
              tables |-> [(IF SparseMap_contains(st.tables, table_id)
                           THEN st.tables
                           ELSE SparseMap_insert(st.tables, table_id,
                                    Table_from_row(TableRow_new)))
                            EXCEPT ![table_id] = Table_add_row(@, entity, TableRow_new)]],
             None)

\* LifecycleManager::create_entities, body for one entity
Lifecycle_create_entity(st, entity) ==
    Lifecycle_create_entity_with(st, entity, ArchetypeId_new(<<>>),
        Archetypes_add_entity(st.archetypes, entity))

\* the end of the row migration shared by add_components and
\* remove_components: the rewritten row enters the table `new`, built from
\* the row when absent
Lifecycle_migrate(tables, entity, new, row) ==
    [(IF SparseMap_contains(tables, new)
      THEN tables
      ELSE SparseMap_insert(tables, new, Table_from_row(row)))
        EXCEPT ![new] = Table_add_row(@, entity, row)]

\* LifecycleManager::add_components, `removed` being remove_row(entity) on
\* the old table
Lifecycle_add_component_row(st, entity, id, value, archetype, moved, removed) ==
    IF ~IsSome(removed.ret) THEN Res(st, Panic)
    ELSE Res([archetypes |-> moved.st,
              tables |-> Lifecycle_migrate(
                            [st.tables EXCEPT ![archetype.val] = removed.st],
                            entity, moved.ret.val,
                            SparseMap_insert(removed.ret.val, id, value))],
             None)

\* LifecycleManager::add_components, `archetype` being
\* archetypes.archetype_id(entity) and `moved` archetypes.add_component
Lifecycle_add_component_moved(st, entity, id, value, archetype, moved) ==
    IF ~IsSome(archetype) THEN Res(st, Panic)
    ELSE IF ~IsSome(moved.ret) THEN Res(st, Panic)
    ELSE IF ~SparseMap_contains(st.tables, archetype.val) THEN Res(st, Panic)
    ELSE Lifecycle_add_component_row(st, entity, id, value, archetype, moved,
            Table_remove_row(st.tables[archetype.val], entity))

\* LifecycleManager::add_components, body for one (entity, value)
Lifecycle_add_component(st, entity, id, value) ==
    Lifecycle_add_component_moved(st, entity, id, value,
        Archetypes_archetype_id(st.archetypes, entity),
        Archetypes_add_component(st.archetypes, entity, id))

\* LifecycleManager::remove_components, `removed` being remove_row(entity)
\* on the old table
Lifecycle_remove_component_row(st, entity, id, archetype, moved, removed) ==
    IF ~IsSome(removed.ret) THEN Res(st, Panic)
    ELSE Res([archetypes |-> moved.st,
              tables |-> Lifecycle_migrate(
                            [st.tables EXCEPT ![archetype.val] = removed.st],
                            entity, moved.ret.val,
                            SparseMap_remove(removed.ret.val, id))],
             None)

\* LifecycleManager::remove_components, `archetype` being
\* archetypes.archetype_id(entity) and `moved` archetypes.remove_component
Lifecycle_remove_component_moved(st, entity, id, archetype, moved) ==
    IF ~IsSome(archetype) THEN Res(st, Panic)
    ELSE IF ~IsSome(moved.ret) THEN Res(st, Panic)
    ELSE IF ~SparseMap_contains(st.tables, archetype.val) THEN Res(st, Panic)
    ELSE Lifecycle_remove_component_row(st, entity, id, archetype, moved,
            Table_remove_row(st.tables[archetype.val], entity))

\* LifecycleManager::remove_components, `has` being archetypes.has(entity, id)
Lifecycle_remove_component_has(st, entity, id, has) ==
    IF IsPanic(has) THEN Res(st, Panic)
    ELSE IF ~has.val THEN Res(st, None)
    ELSE Lifecycle_remove_component_moved(st, entity, id,
            Archetypes_archetype_id(st.archetypes, entity),
            Archetypes_remove_component(st.archetypes, entity, id))

\* LifecycleManager::remove_components, body for one entity
Lifecycle_remove_component(st, entity, id) ==
    Lifecycle_remove_component_has(st, entity, id,
        Archetypes_has(st.archetypes, entity, id))

\* Lifecycle::delete_entity, `removed` being remove_row(entity) on the table
\* of the archetype the entity left
Lifecycle_delete_entity_row(st, deleted, removed) ==
    Res([archetypes |-> deleted.st,
         tables |-> [st.tables EXCEPT ![deleted.ret.val] = removed.st]],
        removed.ret)

\* Lifecycle::delete_entity, `deleted` being archetypes.delete_entity(entity)
Lifecycle_delete_entity_from(st, entity, deleted) ==
    IF ~IsSome(deleted.ret) THEN Res(st, deleted.ret)
    ELSE IF ~SparseMap_contains(st.tables, deleted.ret.val)
    THEN Res([st EXCEPT !.archetypes = deleted.st], None)
    ELSE Lifecycle_delete_entity_row(st, deleted,
            Table_remove_row(st.tables[deleted.ret.val], entity))

\* Lifecycle::delete_entity: the entity leaves its archetype and its table;
\* ret is the removed row (Some), None when the entity is not tracked
Lifecycle_delete_entity(st, entity) ==
    Lifecycle_delete_entity_from(st, entity,
        Archetypes_delete_entity(st.archetypes, entity))

(***************************************************************************)
(* world/actions/builtin.rs: the builtin action types and priorities.      *)
(* An action type is <<kind, component id>>; an instance is a record       *)
(* [entity, component, add_components].                                    *)
(***************************************************************************)
\* u32::MAX.  Priorities are kept shifted by -2^31, which preserves their
\* order and differences: 2147483647 stands for 4294967295
U32Max == 2147483647

T_CreateEntity == <<"CreateEntity", 0>>
T_AddComponent(c) == <<"AddComponent", c>>
T_RemoveComponent(c) == <<"RemoveComponent", c>>
T_DeleteEntity == <<"DeleteEntity", 0>>

ActionTypes ==
    {T_CreateEntity, T_DeleteEntity}
        \cup {T_AddComponent(c) : c \in ComponentIds}
        \cup {T_RemoveComponent(c) : c \in ComponentIds}

\* the PRIORITY constant of each action type
PRIORITY(ty) ==
    CASE ty[1] = "CreateEntity" -> U32Max
      [] ty[1] = "AddComponent" -> U32Max - 1
      [] ty[1] = "RemoveComponent" -> (U32Max - 1) - 1
      [] ty[1] = "DeleteEntity" -> U32Max - 100

NoEntity == Entity_new(0, 0)

\* CreateEntity::new().with(c1).with(c2)...: add_components is a list of
\* <<component id, value>>
CreateEntity_new(add_components) ==
    [entity |-> NoEntity, component |-> 0, add_components |-> add_components]
AddComponent_new(entity, value) ==
    [entity |-> entity, component |-> value, add_components |-> <<>>]
RemoveComponent_new(entity) ==
    [entity |-> entity, component |-> 0, add_components |-> <<>>]
DeleteEntity_new(entity) ==
    [entity |-> entity, component |-> 0, add_components |-> <<>>]

(***************************************************************************)
(* world/actions/mod.rs: Actions, the command buffer.                      *)
(***************************************************************************)
Actions_new == [actions |-> SparseMap_new, executors |-> {}, actions_by_priority |-> <<>>]

\* the comparison of actions_by_priority.sort_by: a.cmp(b).reverse()
Actions_before(p, q) == p > q

\* push((type, PRIORITY)) followed by the stable sort_by: the new type goes
\* behind every type that does not have to come after it
RECURSIVE Actions_sorted_insert(_, _)
Actions_sorted_insert(list, ty) ==
    IF list = <<>> THEN <<ty>>
    ELSE IF Actions_before(PRIORITY(ty), PRIORITY(Head(list)))
         THEN <<ty>> \o list
         ELSE <<Head(list)>> \o Actions_sorted_insert(Tail(list), ty)

\* Actions::add
Actions_add(buffer, ty, action) ==
    IF SparseMap_contains(buffer.actions, ty)
    THEN [buffer EXCEPT !.actions[ty] = Append(@, action)]
    ELSE [actions |-> SparseMap_insert(buffer.actions, ty, <<action>>),
          executors |-> buffer.executors \cup {ty},
          actions_by_priority |-> Actions_sorted_insert(buffer.actions_by_priority, ty)]

\* Actions::append, one type of the other buffer.  `appenders` has the keys
\* of `executors`: Actions::add inserts both together and nothing removes
\* one of them alone.  A type without an appender gets its queue inserted
\* and nothing else: no executor, no entry of actions_by_priority
Actions_append_type(buffer, ty, actions) ==
    IF ty \in buffer.executors
    THEN [buffer EXCEPT !.actions[ty] = @ \o actions]
    ELSE [buffer EXCEPT !.actions = SparseMap_insert(@, ty, actions)]

\* Actions::append of a buffer that holds the one queue `actions` of `ty`
Actions_append(buffer, other) ==
    IF DOMAIN other.actions = {} THEN buffer
    ELSE LET ty == CHOOSE t \in DOMAIN other.actions : TRUE
         IN  Actions_append_type(buffer, ty, other.actions[ty])

\* Actions::is_empty
Actions_is_empty(buffer) == DOMAIN buffer.actions = {}

\* Actions::len
Actions_len(buffer) == Cardinality(DOMAIN buffer.actions)

\* the position in actions_by_priority of the type Actions::execute runs
\* next: the first type that still has a queue and an executor; 0 if none
Actions_cursor(buffer) ==
    LET ready == {i \in 1..Len(buffer.actions_by_priority) :
                    /\ SparseMap_contains(buffer.actions, buffer.actions_by_priority[i])
                    /\ buffer.actions_by_priority[i] \in buffer.executors}
    IN  IF ready = {} THEN 0 ELSE CHOOSE i \in ready : \A j \in ready : i <= j

\* the queue of the type without its first instance; an emptied queue is
\* the entry Actions::execute removed from the map
Actions_pop(buffer, ty) ==
    IF Len(buffer.actions[ty]) = 1
    THEN [buffer EXCEPT !.actions = SparseMap_remove(@, ty)]
    ELSE [buffer EXCEPT !.actions[ty] = Tail(@)]

(***************************************************************************)
(* world/actions/mod.rs: ActionOutputs.                                    *)
(***************************************************************************)
ActionOutputs_new == SparseMap_new

\* ActionOutputs::add: outputs.insert(TypeId::of::<A>(), vec![output])
ActionOutputs_add(outputs, ty, output) == SparseMap_insert(outputs, ty, <<output>>)

(***************************************************************************)
(* world/mod.rs: the World operations, on the record                       *)
(* [entities, archetypes, tables, actions, outputs, panicked].             *)
(***************************************************************************)
World_new ==
    [entities |-> IdAllocator_new, archetypes |-> Archetypes_new,
     tables |-> Tables_new, actions |-> Actions_new,
     outputs |-> ActionOutputs_new, panicked |-> FALSE]

World_panic(w) == [w EXCEPT !.panicked = TRUE]

World_structure(w) == [archetypes |-> w.archetypes, tables |-> w.tables]

\* World::has
World_has(w, entity, component) == Archetypes_has(w.archetypes, entity, component)

\* the components World::has finds on a live entity
World_present(w, entity) ==
    IF ~Entities_contains(w.entities, entity) THEN {}
    ELSE {c \in ComponentIds : World_has(w, entity, c) = Some(TRUE)}

\* World::component, `archetype` being archetypes.archetype_id(entity)
World_component_in(w, entity, component, archetype) ==
    IF ~IsSome(archetype) THEN archetype
    ELSE IF ~SparseMap_contains(w.tables, archetype.val) THEN None
    ELSE Table_get(w.tables[archetype.val], entity, component)

\* World::component
World_component(w, entity, component) ==
    World_component_in(w, entity, component,
        Archetypes_archetype_id(w.archetypes, entity))

\* the world after a Lifecycle call that returned `done`
World_apply(w, done) ==
    IF IsPanic(done.ret) THEN World_panic(w)
    ELSE [w EXCEPT !.archetypes = done.st.archetypes, !.tables = done.st.tables]

\* World::spawn (the entity is IdAllocator_next of the old allocator)
World_spawn(w) ==
    World_apply([w EXCEPT !.entities = Entities_create(w.entities)],
        Lifecycle_create_entity(World_structure(w), IdAllocator_next(w.entities)))

\* World::add_component
World_add_component(w, entity, id, value) ==
    World_apply(w, Lifecycle_add_component(World_structure(w), entity, id, value))

\* World::remove_component
World_remove_component(w, entity, id) ==
    World_apply(w, Lifecycle_remove_component(World_structure(w), entity, id))

\* ComponentActionMeta::on_remove for every column of the removed row
RECURSIVE World_on_remove(_, _, _)
World_on_remove(outputs, columns, entity) ==
    IF columns = {} THEN outputs
    ELSE World_on_remove(
            ActionOutputs_add(outputs,
                T_RemoveComponent(CHOOSE c \in columns : \A d \in columns : c <= d),
                entity),
            columns \ {CHOOSE c \in columns : \A d \in columns : c <= d}, entity)

\* World::delete, `deleted` being Lifecycle::delete_entity
World_delete_from(w, entity, deleted) ==
    IF IsPanic(deleted.ret) THEN World_panic(w)
    ELSE [w EXCEPT !.archetypes = deleted.st.archetypes,
                   !.tables = deleted.st.tables,
                   !.outputs = IF IsSome(deleted.ret)
                               THEN World_on_remove(@, DOMAIN deleted.ret.val, entity)
                               ELSE @,
                   !.entities = Entities_destroy(@, entity)]

\* World::delete
World_delete(w, entity) ==
    World_delete_from(w, entity, Lifecycle_delete_entity(World_structure(w), entity))

(***************************************************************************)
(* world/actions/builtin.rs: execute and skip of the builtin actions.      *)
(***************************************************************************)
\* the closures CreateEntity::with stored: one Actions::add(AddComponent)
\* per attached component
RECURSIVE CreateEntity_add_components(_, _, _)
CreateEntity_add_components(buffer, entity, add_components) ==
    IF add_components = <<>> THEN buffer
    ELSE CreateEntity_add_components(
            Actions_add(buffer, T_AddComponent(Head(add_components)[1]),
                        AddComponent_new(entity, Head(add_components)[2])),
            entity, Tail(add_components))

\* the return of an Action::execute that left the world `done` and whose
\* output is `entity`
Action_done(done, entity) ==
    IF done.panicked THEN Res(done, Panic) ELSE Res(done, Some(entity))

\* CreateEntity::execute, `spawned` being the world after world.create()
CreateEntity_execute_in(spawned, entity, action) ==
    IF spawned.panicked THEN Res(spawned, Panic)
    ELSE Res([spawned EXCEPT !.actions =
                 CreateEntity_add_components(@, entity, action.add_components)],
             Some(entity))

\* CreateEntity::execute
CreateEntity_execute(w, action) ==
    CreateEntity_execute_in(World_spawn(w), IdAllocator_next(w.entities), action)

\* AddComponent::execute
AddComponent_execute(w, c, action) ==
    Action_done(World_add_component(w, action.entity, c, action.component),
                action.entity)

\* RemoveComponent::skip: !world.has::<C>(entity); Some(bool) or Panic
RemoveComponent_skip_of(has) == IF IsPanic(has) THEN Panic ELSE Some(~has.val)

RemoveComponent_skip(w, c, action) ==
    RemoveComponent_skip_of(World_has(w, action.entity, c))

\* RemoveComponent::execute
RemoveComponent_execute(w, c, action) ==
    Action_done(World_remove_component(w, action.entity, c), action.entity)

\* DeleteEntity::execute
DeleteEntity_execute(w, action) ==
    Action_done(World_delete(w, action.entity), action.entity)

\* Action::skip of the type
Action_skip(w, ty, action) ==
    IF ty[1] = "RemoveComponent" THEN RemoveComponent_skip(w, ty[2], action)
    ELSE Some(FALSE)

\* Action::execute of the type
Action_execute(w, ty, action) ==
    CASE ty[1] = "CreateEntity" -> CreateEntity_execute(w, action)
      [] ty[1] = "AddComponent" -> AddComponent_execute(w, ty[2], action)
      [] ty[1] = "RemoveComponent" -> RemoveComponent_execute(w, ty[2], action)
      [] ty[1] = "DeleteEntity" -> DeleteEntity_execute(w, action)

\* the executor closure of Actions::add, after action.execute(world)
\* returned `done`: outputs.add::<A>(..)
Actions_executor_done(outputs, ty, done) ==
    IF IsPanic(done.ret)
    THEN Res([world |-> done.st, outputs |-> outputs], Panic)
    ELSE Res([world |-> done.st,
              outputs |-> ActionOutputs_add(outputs, ty, done.ret.val)],
             Some(TRUE))

\* the executor closure of Actions::add, `skip` being action.skip(world)
Actions_executor_skip(w, outputs, ty, action, skip) ==
    IF IsPanic(skip) THEN Res([world |-> World_panic(w), outputs |-> outputs], Panic)
    ELSE IF skip.val THEN Res([world |-> w, outputs |-> outputs], Some(FALSE))
    ELSE Actions_executor_done(outputs, ty, Action_execute(w, ty, action))

\* one turn of the loop of the executor closure of Actions::add:
\* if !action.skip(world) { outputs.add::<A>(action.execute(world)) }
\* st is [world, outputs]; ret is Some(TRUE) executed, Some(FALSE) skipped
Actions_executor(w, outputs, ty, action) ==
    Actions_executor_skip(w, outputs, ty, action, Action_skip(w, ty, action))

(***************************************************************************)
(* world/actions/mod.rs: ActionExecutors, the observers of the outputs.    *)
(* The registry is a list of [ty, systems] in dispatch order; a system is  *)
(* the reaction of the observer: "none", or "delete" (it pushes a          *)
(* DeleteEntity for every entity of the slice).                            *)
(***************************************************************************)
\* the comparison of ActionExecutors::add_systems' sort:
\* a.priority.cmp(&b.priority).reverse()
ActionExecutors_before(p, q) == p > q

RECURSIVE ActionExecutors_sorted_insert(_, _)
ActionExecutors_sorted_insert(list, executor) ==
    IF list = <<>> THEN <<executor>>
    ELSE IF ActionExecutors_before(PRIORITY(executor.ty), PRIORITY(Head(list).ty))
         THEN <<executor>> \o list
         ELSE <<Head(list)>> \o ActionExecutors_sorted_insert(Tail(list), executor)

\* ActionExecutors::add_systems
ActionExecutors_add_systems(list, ty, systems) ==
    IF \E i \in 1..Len(list) : list[i].ty = ty
    THEN [i \in 1..Len(list) |->
            IF list[i].ty = ty
            THEN [list[i] EXCEPT !.systems = @ \o systems]
            ELSE list[i]]
    ELSE ActionExecutors_sorted_insert(list, [ty |-> ty, systems |-> systems])

\* the commands an observer pushes when it is run with the slice `out`
RECURSIVE ActionSystem_run(_, _, _)
ActionSystem_run(buffer, system, out) ==
    IF system = "none" \/ out = <<>> THEN buffer
    ELSE ActionSystem_run(Actions_add(buffer, T_DeleteEntity, DeleteEntity_new(Head(out))),
                          system, Tail(out))

\* the slice ActionSystemExecutor hands to the systems: the outputs of the
\* type in each of the buffers, appended
ActionSystemExecutor_out(ty, buffers) ==
    (IF SparseMap_contains(buffers[1], ty) THEN buffers[1][ty] ELSE <<>>)
        \o (IF SparseMap_contains(buffers[2], ty) THEN buffers[2][ty] ELSE <<>>)

\* a faulty variant of ActionSystemExecutor_execute: only the first system
\* registered for the type runs
ActionSystemExecutor_execute_first(st, ty, systems, out) ==
    IF systems = <<>> \/ out = <<>> THEN st
    ELSE [actions |-> ActionSystem_run(st.actions, Head(systems), out),
          invoked |-> Append(st.invoked, [ty |-> ty, out |-> out])]

RECURSIVE ActionSystemExecutor_execute(_, _, _, _)
\* ActionSystemExecutor::execute: every system runs with the slice;
\* st is [actions, invoked]
ActionSystemExecutor_execute(st, ty, systems, out) ==
    IF systems = <<>> \/ out = <<>> THEN st
    ELSE ActionSystemExecutor_execute(
            [actions |-> ActionSystem_run(st.actions, Head(systems), out),
             invoked |-> Append(st.invoked, [ty |-> ty, out |-> out])],
            ty, Tail(systems), out)

RECURSIVE ActionExecutors_execute(_, _, _)
\* ActionExecutors::execute over [outputs, prev_outputs]
ActionExecutors_execute(st, list, buffers) ==
    IF list = <<>> THEN st
    ELSE ActionExecutors_execute(
            ActionSystemExecutor_execute(st, Head(list).ty, Head(list).systems,
                ActionSystemExecutor_out(Head(list).ty, buffers)),
            Tail(list), buffers)

(***************************************************************************)
(* archetype/mod.rs and world/query.rs: the query engine.                  *)
(***************************************************************************)
\* iteration over a HashSet, in one of its orders
RECURSIVE HashSet_iter(_)
HashSet_iter(set) ==
    IF set = {} THEN <<>>
    ELSE <<CHOOSE x \in set : TRUE>> \o HashSet_iter(set \ {CHOOSE x \in set : TRUE})

\* the test of Archetypes::archetypes on one archetype: it has every
\* component of `components` and none of `without`
Archetypes_matches(a, id, components, without) ==
    /\ SparseMap_contains(a.archetypes, id)
    /\ \A i \in 1..Len(components) :
            Vec_contains(a.archetypes[id].components, components[i])
    /\ \A i \in 1..Len(without) :
            ~Vec_contains(a.archetypes[id].components, without[i])

\* the inner loop of Archetypes::archetypes over the archetypes of one
\* component: the matching ones are pushed
RECURSIVE Archetypes_push_matching(_, _, _, _, _)
Archetypes_push_matching(a, results, ids, components, without) ==
    IF ids = <<>> THEN results
    ELSE Archetypes_push_matching(a,
            IF Archetypes_matches(a, Head(ids), components, without)
            THEN Append(results, Head(ids))
            ELSE results,
            Tail(ids), components, without)

\* the outer loop of Archetypes::archetypes over `rest`, the components not
\* yet visited
RECURSIVE Archetypes_archetypes_loop(_, _, _, _, _)
Archetypes_archetypes_loop(a, results, rest, components, without) ==
    IF rest = <<>> THEN results
    ELSE Archetypes_archetypes_loop(a,
            IF SparseMap_contains(a.components, Head(rest))
            THEN Archetypes_push_matching(a, results,
                    HashSet_iter(a.components[Head(rest)]), components, without)
            ELSE results,
            Tail(rest), components, without)

\* Archetypes::archetypes
Archetypes_archetypes(a, components, without) ==
    Archetypes_archetypes_loop(a, <<>>, components, components, without)

\* QueryState
QueryState_new == [components |-> <<>>, without |-> <<>>]
QueryState_add_component(state, component) ==
    [state EXCEPT !.components = Append(@, component)]
QueryState_add_without(state, component) ==
    [state EXCEPT !.without = Append(@, component)]

\* With<C>::init and Not<C>::init
With_init(state, component) == QueryState_add_component(state, component)
Not_init(state, component) == QueryState_add_without(state, component)

\* Tables::array: the tables of the ids, in the order of the ids
RECURSIVE Tables_array(_, _)
Tables_array(tables, ids) ==
    IF ids = <<>> THEN <<>>
    ELSE (IF SparseMap_contains(tables, Head(ids)) THEN <<tables[Head(ids)]>> ELSE <<>>)
            \o Tables_array(tables, Tail(ids))

\* the `without` list Query::new hands to Archetypes::archetypes: &[]
Query_new_without(state) == <<>>

\* Query::new, `state` being the QueryState after Q::init and F::init
Query_new(w, state) ==
    [tables |-> Tables_array(w.tables,
                    Archetypes_archetypes(w.archetypes, state.components,
                                          Query_new_without(state))),
     state |-> state, table_index |-> 0, row_index |-> 0]

\* Iterator::next until None, for Q = Entity: the rows of the tables from
\* (table_index, row_index) on
RECURSIVE Query_collect(_)
Query_collect(q) ==
    IF q.table_index >= Len(q.tables) THEN <<>>
    ELSE IF q.row_index >= Len(q.tables[q.table_index + 1].rows)
    THEN Query_collect([q EXCEPT !.table_index = @ + 1, !.row_index = 0])
    ELSE <<q.tables[q.table_index + 1].rows[q.row_index + 1]>>
            \o Query_collect([q EXCEPT !.row_index = @ + 1])

\* the items of Query<Entity, (With<C>, Not<D>)>, in order
Query_With_Not(w, c, d) ==
    Query_collect(Query_new(w, Not_init(With_init(QueryState_new, c), d)))

\* the items of Query<Entity, (With<C>, With<D>)>, in order
Query_With_With(w, c, d) ==
    Query_collect(Query_new(w, With_init(With_init(QueryState_new, c), d)))

(***************************************************************************)
(* schedule/graph.rs: the system graph.  An AccessType is "None", "World"  *)
(* or the name of a resource or component; a NodeId is the 0-based index   *)
(* of the node in `nodes`.                                                 *)
(***************************************************************************)
\* System::new: the access lists, no explicit ordering
System_new(reads, writes) ==
    [reads |-> reads, writes |-> writes, before |-> <<>>, after |-> <<>>]

\* IntoSystem::before for System
System_before(system, other) == [system EXCEPT !.before = Append(@, other)]

\* IntoSystem::after for System
System_after(system, other) == [system EXCEPT !.after = Append(@, other)]

\* Node::new
Node_new(system) ==
    [reads |-> system.reads, writes |-> system.writes, dependencies |-> <<>>]

\* Node::add_dependency
Node_add_dependency(node, dependency) ==
    [node EXCEPT !.dependencies = Append(@, dependency)]

\* SystemGraph::new
SystemGraph_new == [nodes |-> <<>>, hierarchy |-> <<>>]

\* SystemGraph::add_node: the id of the node is the former nodes.len()
SystemGraph_add_node(g, node) == [g EXCEPT !.nodes = Append(@, node)]

\* add_system, `for after_id in after_ids`: an after node that reads World
\* gets the new node as a dependency
RECURSIVE SystemGraph_link_afters(_, _, _)
SystemGraph_link_afters(g, after_ids, node_id) ==
    IF after_ids = <<>> THEN g
    ELSE SystemGraph_link_afters(
            IF Vec_contains(g.nodes[Head(after_ids) + 1].reads, "World")
            THEN [g EXCEPT !.nodes[Head(after_ids) + 1] =
                                Node_add_dependency(@, node_id)]
            ELSE g,
            Tail(after_ids), node_id)

\* add_system, `for before_id in before_ids`: a node that reads World gets
\* its before nodes as dependencies
RECURSIVE SystemGraph_link_befores(_, _, _)
SystemGraph_link_befores(g, before_ids, node_id) ==
    IF before_ids = <<>> \/ ~Vec_contains(g.nodes[node_id + 1].reads, "World")
    THEN g
    ELSE SystemGraph_link_befores(
            [g EXCEPT !.nodes[node_id + 1] =
                            Node_add_dependency(@, Head(before_ids))],
            Tail(before_ids), node_id)

RECURSIVE SystemGraph_add_system(_, _)
RECURSIVE SystemGraph_add_systems(_, _)

\* `.map(|system| self.add_system(system)).collect()`: the graph and the ids
SystemGraph_add_systems(added, systems) ==
    IF systems = <<>> THEN added
    ELSE SystemGraph_add_systems(
            SystemGraph_add_system(added, Head(systems)), Tail(systems))

\* add_system once the after systems are in: the node, its links to the
\* afters, then the before systems and the links to them
SystemGraph_add_system_node(afters, system, node_id) ==
    SystemGraph_add_systems(
        [g |-> SystemGraph_link_afters(
                    SystemGraph_add_node(afters.g, Node_new(system)),
                    afters.ids, node_id),
         ids |-> <<>>],
        system.before)

\* add_system once the before systems are in as well
SystemGraph_add_system_done(added, befores, node_id) ==
    [g |-> SystemGraph_link_befores(befores.g, befores.ids, node_id),
     ids |-> Append(added.ids, node_id)]

\* add_system once the after systems are in
SystemGraph_add_system_after(added, afters, system) ==
    SystemGraph_add_system_done(
        added,
        SystemGraph_add_system_node(afters, system, Len(afters.g.nodes)),
        Len(afters.g.nodes))

\* SystemGraph::add_system; `added` carries the graph and the ids returned
\* so far, the id of the new node is appended
SystemGraph_add_system(added, system) ==
    SystemGraph_add_system_after(
        added,
        SystemGraph_add_systems([g |-> added.g, ids |-> <<>>], system.after),
        system)

\* build, the body of the inner loop for (i, j): skipped for i == j and when
\* j already has the edge to i, else the edge i -> j when i writes what j reads
SystemGraph_build_visit(dg, nodes, i, j) ==
    IF i = j \/ (j \in DOMAIN dg /\ i \in dg[j]) THEN dg
    ELSE IF \E k \in 1..Len(nodes[i + 1].writes) :
                /\ nodes[i + 1].writes[k] # "None"
                /\ Vec_contains(nodes[j + 1].reads, nodes[i + 1].writes[k])
    THEN [dg EXCEPT ![i] = @ \cup {j}]
    ELSE dg

\* build, the inner loop over j
RECURSIVE SystemGraph_build_inner(_, _, _, _)
SystemGraph_build_inner(dg, nodes, i, j) ==
    IF j >= Len(nodes) THEN dg
    ELSE SystemGraph_build_inner(
            SystemGraph_build_visit(dg, nodes, i, j), nodes, i, j + 1)

\* build, `for dependency in node.dependencies()`
SystemGraph_build_dependencies(dg, nodes, i) ==
    [dg EXCEPT ![i] = @ \cup {nodes[i + 1].dependencies[k] :
                                k \in 1..Len(nodes[i + 1].dependencies)}]

\* build, the outer loop over i: a fresh entry for i, the inner loop, the
\* explicit dependencies
RECURSIVE SystemGraph_build_outer(_, _, _)
SystemGraph_build_outer(dg, nodes, i) ==
    IF i >= Len(nodes) THEN dg
    ELSE SystemGraph_build_outer(
            SystemGraph_build_dependencies(
                SystemGraph_build_inner((i :> {}) @@ dg, nodes, i, 0),
                nodes, i),
            nodes, i + 1)

\* build, lines 152-185: the dependency graph, a map NodeId -> set of NodeId
SystemGraph_dependency_graph(nodes) ==
    SystemGraph_build_outer(<<>>, nodes, 0)

\* the least element of a non-empty set of node ids
NodeId_min(s) == CHOOSE n \in s : \A m \in s : n <= m

\* collect::<Vec<NodeId>>() followed by group.sort()
RECURSIVE NodeId_sorted(_)
NodeId_sorted(s) ==
    IF s = {} THEN <<>>
    ELSE <<NodeId_min(s)>> \o NodeId_sorted(s \ {NodeId_min(s)})

\* build, the group of one round: the keys no remaining entry names
SystemGraph_build_group(dg) ==
    {n \in DOMAIN dg : \A m \in DOMAIN dg : n \notin dg[m]}

\* build, `for world_id in world_nodes { hierarchy.push(vec![world_id]) }`
RECURSIVE SystemGraph_build_push_world(_, _)
SystemGraph_build_push_world(hierarchy, world_nodes) ==
    IF world_nodes = <<>> THEN hierarchy
    ELSE SystemGraph_build_push_world(
            Append(hierarchy, <<Head(world_nodes)>>), Tail(world_nodes))

\* build, one round of the peeling loop once the group is known: the group
\* leaves the map, its World readers leave the group, the group goes to the
\* front of the hierarchy and each World reader to the back
SystemGraph_build_round(nodes, hierarchy, group) ==
    SystemGraph_build_push_world(
        <<NodeId_sorted({n \in group : ~Vec_contains(nodes[n + 1].reads, "World")})>>
            \o hierarchy,
        NodeId_sorted({n \in group : Vec_contains(nodes[n + 1].reads, "World")}))

\* build, lines 189-223: `while !dependency_graph.is_empty()`.  A round
\* whose group is empty removes nothing, so the loop never ends: Hang
Hang == [tag |-> "hang"]
IsHang(o) == o.tag = "hang"

RECURSIVE SystemGraph_build_peel(_, _, _)
SystemGraph_build_peel_group(dg, nodes, hierarchy, group) ==
    IF group = {} THEN Hang
    ELSE SystemGraph_build_peel(
            [n \in (DOMAIN dg) \ group |-> dg[n]], nodes,
            SystemGraph_build_round(nodes, hierarchy, group))

SystemGraph_build_peel(dg, nodes, hierarchy) ==
    IF DOMAIN dg = {} THEN Some(hierarchy)
    ELSE SystemGraph_build_peel_group(dg, nodes, hierarchy,
                                      SystemGraph_build_group(dg))

\* stable insertion of a layer by its first node id
RECURSIVE SystemGraph_build_insert_by_first(_, _)
SystemGraph_build_insert_by_first(sorted, layer) ==
    IF sorted = <<>> THEN <<layer>>
    ELSE IF layer[1] < Head(sorted)[1] THEN <<layer>> \o sorted
    ELSE <<Head(sorted)>> \o SystemGraph_build_insert_by_first(Tail(sorted), layer)

RECURSIVE SystemGraph_build_sorted(_)
SystemGraph_build_sorted(hierarchy) ==
    IF hierarchy = <<>> THEN <<>>
    ELSE SystemGraph_build_insert_by_first(
            SystemGraph_build_sorted(SubSeq(hierarchy, 1, Len(hierarchy) - 1)),
            hierarchy[Len(hierarchy)])

\* build, lines 225-230: hierarchy.sort_by on a.first().unwrap(); the
\* comparison runs when there are two layers or more and panics on an
\* empty layer
SystemGraph_build_sort_by(hierarchy) ==
    IF Len(hierarchy) < 2 THEN Some(hierarchy)
    ELSE IF \E k \in 1..Len(hierarchy) : hierarchy[k] = <<>> THEN Panic
    ELSE Some(SystemGraph_build_sorted(hierarchy))

\* build, `self.hierarchy = hierarchy`
SystemGraph_build_store(g, sorted) ==
    IF IsPanic(sorted) THEN Res(g, Panic)
    ELSE Res([g EXCEPT !.hierarchy = sorted.val], Some(TRUE))

\* build, from the peeled hierarchy on
SystemGraph_build_finish(g, peeled) ==
    IF IsHang(peeled) THEN Res(g, Hang)
    ELSE SystemGraph_build_store(g, SystemGraph_build_sort_by(peeled.val))

\* SystemGraph::build
SystemGraph_build(g) ==
    SystemGraph_build_finish(
        g,
        SystemGraph_build_peel(SystemGraph_dependency_graph(g.nodes), g.nodes, <<>>))

(***************************************************************************)
(* The world as a state machine: run::<P>() executes the systems of the    *)
(* global schedules, then of the scene schedules, then flushes.            *)
(***************************************************************************)
VARIABLES
    world,      \* the World: entities, archetypes, tables, Actions, ActionOutputs
    executors,  \* the ActionExecutors resource
    pc,         \* "idle", "global", "scene", "flush", "execute", "panicked"
    taken,      \* flush: the buffer returned by Actions::take, being executed
    round,      \* flush: the ActionOutputs of the round being executed
    executed,   \* the <<type, instance, components the target had>> executed
                \* in the current round, in order
    invoked,    \* the observers run by the last dispatch: [ty, out], in order
    issued,     \* the commands pushed since the current run began
    runs,       \* number of run::<P>() calls so far
    pushed,     \* number of commands the systems pushed so far
    handled,    \* <<type, instance>> -> how many times the flushes of the
                \* current run executed or skipped it
    graph,      \* the SystemGraph: nodes and hierarchy
    gpc,        \* "adding", "built", "panicked" (unwrap of an empty layer), "hung"
    ordered,    \* the pairs <<t, s>> of node ids added as s.after(t) or t.before(s)
    rpc,        \* the main thread in ParallelRunner::run: "idle", "row", "send",
                \* "wait", "park", "waiting", "exit", "done"
    row,        \* the index of the row of the hierarchy being run
    sent,       \* the number of jobs of the row sent to the pool
    channel,    \* the jobs in the channel of the pool
    workers,    \* the worker threads: [st, job]
    barrier,    \* the JobBarrier of the row: [count, total]
    started,    \* the nodes whose run has begun
    finished,   \* the nodes whose run has returned
    queue,      \* the Actions resource of the observer module
    components, \* the Components registry
    registered, \* the calls of Components::register: <<type, id returned>>
    schedules,  \* the GlobalSchedules resource: phase -> label -> SystemGraph
    lastRun,    \* the last call of World::run: its phase and the systems it ran
    table,      \* a Table<I> of storage/table.rs, or the TableBuilder making it
    tpc,        \* "building", "built", "panicked", "undefined"
    sset,       \* a SparseSet<V> of storage/sparse.rs
    latest,     \* per key: the value of its latest insert, None after a remove
    spc,        \* "ok", "panicked"
    blob,       \* a Blob of storage/blob.rs
    single,     \* the Blob the last swap_remove returned, while it is held
    destructed, \* per element: how often its destructor has run
    nelems,     \* the number of elements made so far
    bpc,        \* "none", "live", "dropped", "panicked", "undefined"
    threads,    \* the worker threads of a TaskPool: "recv", "job", "exited"
    mailbox,    \* the channel of the TaskPool: the messages sent and not received
    performed,  \* per job: how often it has been run
    submitted,  \* the number of jobs handed to execute
    ppc         \* the owner of the TaskPool: [at, worker], at "none", "open",
                \* "send", "join" (inside the loop of join), "joined"

worldVars ==
    <<world, executors, pc, taken, round, executed, invoked, issued, runs, pushed,
      handled>>

graphVars == <<graph, gpc, ordered>>

registryVars == <<components, registered>>

scheduleVars == <<schedules, lastRun>>

tableVars == <<table, tpc>>

sparseVars == <<sset, latest, spc>>

blobVars == <<blob, single, destructed, nelems, bpc>>

poolVars == <<threads, mailbox, performed, submitted, ppc>>

runnerVars == <<rpc, row, sent, channel, workers, barrier, started, finished>>

\* the observer registrations explored: none; an observer of CreateEntity
\* that deletes what was created together with a passive observer of
\* RemoveComponent<C>; two passive observers of RemoveComponent<C>
ObserverConfigs ==
    {<<>>,
     ActionExecutors_add_systems(
        ActionExecutors_add_systems(<<>>, T_RemoveComponent(0), <<"none">>),
        T_CreateEntity, <<"delete">>),
     ActionExecutors_add_systems(<<>>, T_RemoveComponent(0), <<"none", "none">>)}

WorldInit ==
    /\ world = World_new
    /\ executors \in ObserverConfigs
    /\ pc = "idle"
    /\ taken = Actions_new
    /\ round = ActionOutputs_new
    /\ executed = <<>>
    /\ invoked = <<>>
    /\ issued = {}
    /\ runs = 0
    /\ pushed = 0
    /\ handled = <<>>

\* the entity values a system may name: it got them from the world, so
\* every generation up to the stored one of an index that was allocated
Handles(w) ==
    {Entity_new(i, g) : i \in 0..(MaxIndex - 1), g \in 0..MaxIndex} \cap
    {e \in (0..(MaxIndex - 1)) \X (0..MaxIndex) :
        /\ Entity_id(e) < Len(w.entities.gens)
        /\ Entity_generation(e) <= w.entities.gens[Entity_id(e) + 1]}

\* the component lists a CreateEntity command carries
CreateWith == {<<>>, <<<<0, 1>>>>}

LiveCount(w) == Len(w.entities.gens) - Len(w.entities.free)

PendingCreates(w) ==
    IF SparseMap_contains(w.actions.actions, T_CreateEntity)
    THEN Len(w.actions.actions[T_CreateEntity]) ELSE 0

\* the commands a system may push
Commands(w) ==
    {<<T_CreateEntity, CreateEntity_new(a)>> : a \in
        IF LiveCount(w) + PendingCreates(w) < MaxIndex THEN CreateWith ELSE {}}
    \cup {<<T_AddComponent(c), AddComponent_new(e, v)>> :
            e \in Handles(w), c \in ComponentIds, v \in Values}
    \cup {<<T_RemoveComponent(c), RemoveComponent_new(e)>> :
            e \in Handles(w), c \in ComponentIds}
    \cup {<<T_DeleteEntity, DeleteEntity_new(e)>> : e \in Handles(w)}

\* the record of a push: `n` tells the pushes of equal commands apart,
\* `live` whether the target was live and `alive` which entities were
Issue(w, ty, action, by, n) ==
    [ty |-> ty, action |-> action, by |-> by, n |-> n,
     live |-> Entities_contains(w.entities, action.entity),
     alive |-> {e \in Handles(w) : Entities_contains(w.entities, e)}]

\* World::run, entry
RunBegin ==
    /\ pc = "idle"
    /\ runs < MaxRuns
    /\ pc' = "global"
    /\ runs' = runs + 1
    /\ issued' = {}
    /\ executed' = <<>>
    /\ invoked' = <<>>
    /\ handled' = <<>>
    /\ UNCHANGED <<world, executors, taken, round, pushed>>
    /\ UNCHANGED <<graphVars, runnerVars, queue, registryVars, scheduleVars, tableVars, sparseVars, blobVars, poolVars>>

\* a faulty variant of SystemPush: the command is executed at once instead
\* of being buffered
SystemPush_immediate ==
    /\ pc \in {"global", "scene"}
    /\ pushed < MaxPending
    /\ \E cmd \in Commands(world) :
       \E done \in {Actions_executor(world, ActionOutputs_new, cmd[1], cmd[2])} :
        /\ ~IsPanic(done.ret)
        /\ world' = done.st.world
        /\ issued' = issued \cup {Issue(world, cmd[1], cmd[2], "system",
                                        <<Cardinality(issued), 0>>)}
    /\ pushed' = pushed + 1
    /\ UNCHANGED <<executors, pc, taken, round, executed, invoked, runs, handled>>
    /\ UNCHANGED <<graphVars, runnerVars, queue, registryVars, scheduleVars, tableVars, sparseVars, blobVars, poolVars>>

\* a system of the running phase pushes a command: Actions::add
SystemPush ==
    /\ pc \in {"global", "scene"}
    /\ pushed < MaxPending
    /\ \E cmd \in Commands(world) :
        /\ world' = [world EXCEPT !.actions = Actions_add(@, cmd[1], cmd[2])]
        /\ issued' = issued \cup {Issue(world, cmd[1], cmd[2], "system",
                                            <<Cardinality(issued), 0>>)}
    /\ pushed' = pushed + 1
    /\ UNCHANGED <<executors, pc, taken, round, executed, invoked, runs, handled>>
    /\ UNCHANGED <<graphVars, runnerVars, queue, registryVars, scheduleVars, tableVars, sparseVars, blobVars, poolVars>>

\* a system of the running phase filled a buffer of its own with a command
\* and hands it over: Actions::append
SystemAppend ==
    /\ pc \in {"global", "scene"}
    /\ pushed < MaxPending
    /\ \E cmd \in Commands(world) :
        /\ world' = [world EXCEPT !.actions =
                        Actions_append(@, Actions_add(Actions_new, cmd[1], cmd[2]))]
        /\ issued' = issued \cup {Issue(world, cmd[1], cmd[2], "append",
                                            <<Cardinality(issued), 0>>)}
    /\ pushed' = pushed + 1
    /\ UNCHANGED <<executors, pc, taken, round, executed, invoked, runs, handled>>
    /\ UNCHANGED <<graphVars, runnerVars, queue, registryVars, scheduleVars, tableVars, sparseVars, blobVars, poolVars>>

\* World::run: the global schedules have run, the scene schedules start
GlobalDone ==
    /\ pc = "global"
    /\ pc' = "scene"
    /\ UNCHANGED <<world, executors, taken, round, executed, invoked, issued, runs, pushed, handled>>
    /\ UNCHANGED <<graphVars, runnerVars, queue, registryVars, scheduleVars, tableVars, sparseVars, blobVars, poolVars>>

\* World::run: every schedule has run, flush starts
SceneDone ==
    /\ pc = "scene"
    /\ pc' = "flush"
    /\ UNCHANGED <<world, executors, taken, round, executed, invoked, issued, runs, pushed, handled>>
    /\ UNCHANGED <<graphVars, runnerVars, queue, registryVars, scheduleVars, tableVars, sparseVars, blobVars, poolVars>>

\* a faulty variant of FlushEnter: the buffer is taken and a round is run
\* without the is_empty check
FlushEnter_unchecked ==
    /\ pc = "flush"
    /\ pc' = "execute"
    /\ taken' = world.actions
    /\ world' = [world EXCEPT !.actions = Actions_new]
    /\ round' = ActionOutputs_new
    /\ executed' = <<>>
    /\ UNCHANGED <<executors, invoked, issued, runs, pushed, handled>>
    /\ UNCHANGED <<graphVars, runnerVars, queue, registryVars, scheduleVars, tableVars, sparseVars, blobVars, poolVars>>

\* World::flush, entry of one round: return when the buffer is empty,
\* else take the buffer
FlushEnter ==
    /\ pc = "flush"
    /\ IF Actions_is_empty(world.actions)
       THEN /\ pc' = "idle"
            /\ UNCHANGED <<world, taken, round, executed>>
       ELSE /\ pc' = "execute"
            /\ taken' = world.actions
            /\ world' = [world EXCEPT !.actions = Actions_new]
            /\ round' = ActionOutputs_new
            /\ executed' = <<>>
    /\ UNCHANGED <<executors, invoked, issued, runs, pushed, handled>>
    /\ UNCHANGED <<graphVars, runnerVars, queue, registryVars, scheduleVars, tableVars, sparseVars, blobVars, poolVars>>

\* the commands the execution of an action added to the buffer
NewlyIssued(before, after, by, n) ==
    UNION {{Issue(after, ty, after.actions.actions[ty][i], by, <<n, i>>) :
                i \in {j \in 1..Len(after.actions.actions[ty]) :
                         ~SparseMap_contains(before.actions.actions, ty)
                         \/ j > Len(before.actions.actions[ty])}} :
            ty \in DOMAIN after.actions.actions}

\* one more execution or skip of the instance
Handled_count(counts, instance) ==
    IF instance \in DOMAIN counts THEN [counts EXCEPT ![instance] = @ + 1]
    ELSE (instance :> 1) @@ counts

\* Actions::execute, one instance: the next instance of the first type of
\* actions_by_priority that has instances left
ExecuteNext ==
    /\ pc = "execute"
    /\ Actions_cursor(taken) # 0
    /\ \E ty \in {taken.actions_by_priority[Actions_cursor(taken)]} :
       \E done \in {Actions_executor(world, round, ty, Head(taken.actions[ty]))} :
           /\ world' = done.st.world
           /\ round' = done.st.outputs
           /\ taken' = Actions_pop(taken, ty)
           /\ pc' = IF IsPanic(done.ret) THEN "panicked" ELSE "execute"
           /\ executed' = IF IsSome(done.ret) /\ done.ret.val
                          THEN Append(executed,
                                  <<ty, Head(taken.actions[ty]),
                                    World_present(world, Head(taken.actions[ty]).entity)>>)
                          ELSE executed
           /\ issued' = issued \cup NewlyIssued(world, done.st.world, "action",
                                              Cardinality(issued))
           /\ handled' = IF IsPanic(done.ret) THEN handled
                         ELSE Handled_count(handled, <<ty, Head(taken.actions[ty])>>)
    /\ UNCHANGED <<executors, invoked, runs, pushed>>
    /\ UNCHANGED <<graphVars, runnerVars, queue, registryVars, scheduleVars, tableVars, sparseVars, blobVars, poolVars>>

\* the rest of the round of World::flush once Actions::execute is through:
\* prev_outputs = ActionOutputs::take, ActionExecutors::execute, recursion
Dispatch ==
    /\ pc = "execute"
    /\ Actions_cursor(taken) = 0
    /\ \E ran \in {ActionExecutors_execute(
                      [actions |-> world.actions, invoked |-> <<>>],
                      executors, <<round, world.outputs>>)} :
       \E after \in {[world EXCEPT !.outputs = ActionOutputs_new,
                                   !.actions = ran.actions]} :
           /\ world' = after
           /\ invoked' = ran.invoked
           /\ issued' = issued \cup NewlyIssued(world, after, "observer",
                                              Cardinality(issued))
    /\ taken' = Actions_new
    /\ pc' = "flush"
    /\ UNCHANGED <<executors, round, executed, runs, pushed, handled>>
    /\ UNCHANGED <<graphVars, runnerVars, queue, registryVars, scheduleVars, tableVars, sparseVars, blobVars, poolVars>>

WorldNext ==
    \/ RunBegin
    \/ SystemPush
    \/ GlobalDone
    \/ SceneDone
    \/ FlushEnter
    \/ ExecuteNext
    \/ Dispatch

(***************************************************************************)
(* The system graph as a state machine: systems are added, then build().   *)
(***************************************************************************)
\* the access lists of the systems explored
SystemReads == {<<>>, <<"R">>, <<"Q">>, <<"World">>}
SystemWrites == {<<>>, <<"R">>, <<"Q">>}

\* systems without explicit ordering
LeafSystems == {System_new(r, w) : r \in SystemReads, w \in SystemWrites}

\* the systems handed to add_system: a system, s.before(t) or s.after(t)
Systems ==
    LeafSystems
    \cup {System_before(s, t) : s \in LeafSystems, t \in LeafSystems}
    \cup {System_after(s, t) : s \in LeafSystems, t \in LeafSystems}

\* the explicit orderings of a system whose after and before systems are
\* leaves, as pairs <<earlier, later>> of the node ids add_system gives
\* when the graph has `base` nodes: the after systems come first, then the
\* system, then the before systems
System_order(system, base) ==
    {<<base + k - 1, base + Len(system.after)>> : k \in 1..Len(system.after)}
    \cup {<<base + Len(system.after), base + Len(system.after) + k>> :
                k \in 1..Len(system.before)}

\* the number of nodes add_system makes of a system
System_size(system) == 1 + Len(system.before) + Len(system.after)

GraphInit ==
    /\ graph = SystemGraph_new
    /\ gpc = "adding"
    /\ ordered = {}

\* Schedule::add_system -> SystemGraph::add_system
GraphAddSystem ==
    /\ gpc = "adding"
    /\ \E system \in Systems :
        /\ Len(graph.nodes) + System_size(system) <= MaxNodes
        /\ graph' = SystemGraph_add_system([g |-> graph, ids |-> <<>>], system).g
        /\ ordered' = ordered \cup System_order(system, Len(graph.nodes))
    /\ gpc' = gpc
    /\ UNCHANGED <<worldVars, runnerVars, queue, registryVars, scheduleVars, tableVars, sparseVars, blobVars, poolVars>>

\* SystemGraph::build
GraphBuild ==
    /\ gpc = "adding"
    /\ \E done \in {SystemGraph_build(graph)} :
        /\ graph' = done.st
        /\ gpc' = IF IsPanic(done.ret) THEN "panicked"
                  ELSE IF IsHang(done.ret) THEN "hung"
                  ELSE "built"
    /\ ordered' = ordered
    /\ UNCHANGED <<worldVars, runnerVars, queue, registryVars, scheduleVars, tableVars, sparseVars, blobVars, poolVars>>

GraphNext ==
    \/ GraphAddSystem
    \/ GraphBuild

(***************************************************************************)
(* schedule/runner.rs, tasks/mod.rs, tasks/barrier.rs: ParallelRunner::run *)
(* over a built graph.  The main thread walks the rows of the hierarchy;   *)
(* for each row a scoped pool of workers drains the channel of jobs.       *)
(***************************************************************************)
\* the `None` job that ends a worker
NoJob == -1

\* a worker thread of the pool: `loop { recv() ... }`
Worker_new == [st |-> "recv", job |-> NoJob]

\* JobBarrier::new
JobBarrier_new(total) == [count |-> 0, total |-> total]

\* JobBarrier::notify: the count, and whether notify_all is called
JobBarrier_notify(b) == [b EXCEPT !.count = @ + 1]

JobBarrier_notifies(b) == b.count >= b.total

\* BarrierLock::wait, `if count < total`: whether the caller goes to wait
BarrierLock_must_wait(b) == b.count < b.total

\* the threads std::thread::scope still has to join
ScopedTaskPool_running(ws) == {w \in DOMAIN ws : ws[w].st # "terminated"}

\* ScopedTaskPool::new(size, ..): the threads of earlier pools that are
\* still alive, and `size` new workers
ScopedTaskPool_new(ws, size) ==
    SelectSeq(ws, LAMBDA w : w.st # "terminated") \o [i \in 1..size |-> Worker_new]

\* sender.join(): a `None` job for each worker of the pool
ScopedTaskPool_join(chan, size) == chan \o [i \in 1..size |-> NoJob]

\* row.len().min(available_threads)
Runner_num_threads(layer) ==
    IF Len(layer) < AvailableParallelism THEN Len(layer) ELSE AvailableParallelism

\* the systems ParallelRunner is handed: no World access
RunnerSystems == {System_new(r, w) : r \in {<<>>, <<"R">>}, w \in {<<>>, <<"R">>}}

\* the graphs of at most n of these systems
RECURSIVE RunnerGraphsOf(_)
RunnerGraphsOf(n) ==
    IF n = 0 THEN {SystemGraph_new}
    ELSE RunnerGraphsOf(n - 1)
         \cup {SystemGraph_add_system([g |-> g, ids |-> <<>>], s).g :
                    g \in RunnerGraphsOf(n - 1), s \in RunnerSystems}

\* the graphs on which build() returned
RunnerGraphs ==
    {SystemGraph_build(g).st :
        g \in {h \in RunnerGraphsOf(MaxNodes) : IsSome(SystemGraph_build(h).ret)}}

RunnerInit ==
    /\ rpc = "idle"
    /\ row = 0
    /\ sent = 0
    /\ channel = <<>>
    /\ workers = <<>>
    /\ barrier = JobBarrier_new(0)
    /\ started = {}
    /\ finished = {}

\* ScheduleRunner::run is called
RunnerRun ==
    /\ rpc = "idle"
    /\ gpc = "built"
    /\ rpc' = "row"
    /\ UNCHANGED <<row, sent, channel, workers, barrier, started, finished>>
    /\ UNCHANGED <<worldVars, graphVars, queue, registryVars, scheduleVars, tableVars, sparseVars, blobVars, poolVars>>

\* `for row in graph.hierarchy()`: the end of the loop, or the pool of the
\* row and its barrier
RunnerRowBegin ==
    /\ rpc = "row"
    /\ IF row >= Len(graph.hierarchy)
       THEN /\ rpc' = "done"
            /\ UNCHANGED <<sent, channel, workers, barrier>>
       ELSE /\ rpc' = "send"
            /\ sent' = 0
            /\ channel' = <<>>
            /\ workers' = ScopedTaskPool_new(
                            workers, Runner_num_threads(graph.hierarchy[row + 1]))
            /\ barrier' = JobBarrier_new(Len(graph.hierarchy[row + 1]))
    /\ UNCHANGED <<row, started, finished>>
    /\ UNCHANGED <<worldVars, graphVars, queue, registryVars, scheduleVars, tableVars, sparseVars, blobVars, poolVars>>

\* `for node in row { sender.send(..) }`: one job is sent
RunnerSend ==
    /\ rpc = "send"
    /\ sent < Len(graph.hierarchy[row + 1])
    /\ channel' = Append(channel, graph.hierarchy[row + 1][sent + 1])
    /\ sent' = sent + 1
    /\ UNCHANGED <<rpc, row, workers, barrier, started, finished>>
    /\ UNCHANGED <<worldVars, graphVars, queue, registryVars, scheduleVars, tableVars, sparseVars, blobVars, poolVars>>

\* sender.join()
RunnerJoin ==
    /\ rpc = "send"
    /\ sent = Len(graph.hierarchy[row + 1])
    /\ channel' = ScopedTaskPool_join(
                    channel, Runner_num_threads(graph.hierarchy[row + 1]))
    /\ rpc' = "wait"
    /\ UNCHANGED <<row, sent, workers, barrier, started, finished>>
    /\ UNCHANGED <<worldVars, graphVars, queue, registryVars, scheduleVars, tableVars, sparseVars, blobVars, poolVars>>

\* lock.wait(barrier.lock().unwrap()): count and total are read under the
\* lock of the barrier; the lock is dropped before the caller waits
RunnerWaitCheck ==
    /\ rpc = "wait"
    /\ rpc' = IF BarrierLock_must_wait(barrier) THEN "park" ELSE "exit"
    /\ UNCHANGED <<row, sent, channel, workers, barrier, started, finished>>
    /\ UNCHANGED <<worldVars, graphVars, queue, registryVars, scheduleVars, tableVars, sparseVars, blobVars, poolVars>>

\* BarrierLock::wait: self.guard.lock(), then condvar.wait(guard) begins
RunnerWaitPark ==
    /\ rpc = "park"
    /\ rpc' = "waiting"
    /\ UNCHANGED <<row, sent, channel, workers, barrier, started, finished>>
    /\ UNCHANGED <<worldVars, graphVars, queue, registryVars, scheduleVars, tableVars, sparseVars, blobVars, poolVars>>

\* Condvar::wait returns without a notification (a spurious wakeup)
RunnerWaitSpurious ==
    /\ rpc = "waiting"
    /\ rpc' = "exit"
    /\ UNCHANGED <<row, sent, channel, workers, barrier, started, finished>>
    /\ UNCHANGED <<worldVars, graphVars, queue, registryVars, scheduleVars, tableVars, sparseVars, blobVars, poolVars>>

\* a faulty variant of RunnerRowEnd: the runner goes on to the next row
\* without the threads of the pool being joined
RunnerRowEnd_detached ==
    /\ rpc = "exit"
    /\ rpc' = "row"
    /\ row' = row + 1
    /\ UNCHANGED <<sent, channel, workers, barrier, started, finished>>
    /\ UNCHANGED <<worldVars, graphVars, queue, registryVars, scheduleVars, tableVars, sparseVars, blobVars, poolVars>>

\* the closure returns and ScopedTaskPool::new with it, once the scope has
\* joined every thread of the pool; the loop goes on to the next row
RunnerRowEnd ==
    /\ rpc = "exit"
    /\ ScopedTaskPool_running(workers) = {}
    /\ rpc' = "row"
    /\ row' = row + 1
    /\ UNCHANGED <<sent, channel, workers, barrier, started, finished>>
    /\ UNCHANGED <<worldVars, graphVars, queue, registryVars, scheduleVars, tableVars, sparseVars, blobVars, poolVars>>

\* a worker receives a job: node.run(world) begins, or the worker ends
WorkerRecv ==
    /\ channel # <<>>
    /\ \E w \in DOMAIN workers :
        /\ workers[w].st = "recv"
        /\ IF Head(channel) = NoJob
           THEN /\ workers' = [workers EXCEPT ![w].st = "terminated"]
                /\ started' = started
           ELSE /\ workers' = [workers EXCEPT ![w] =
                                    [st |-> "running", job |-> Head(channel)]]
                /\ started' = started \cup {Head(channel)}
    /\ channel' = Tail(channel)
    /\ UNCHANGED <<rpc, row, sent, barrier, finished>>
    /\ UNCHANGED <<worldVars, graphVars, queue, registryVars, scheduleVars, tableVars, sparseVars, blobVars, poolVars>>

\* node.run(world) returns
WorkerFinish ==
    /\ \E w \in DOMAIN workers :
        /\ workers[w].st = "running"
        /\ workers' = [workers EXCEPT ![w].st = "notify"]
        /\ finished' = finished \cup {workers[w].job}
    /\ UNCHANGED <<rpc, row, sent, channel, barrier, started>>
    /\ UNCHANGED <<worldVars, graphVars, queue, registryVars, scheduleVars, tableVars, sparseVars, blobVars, poolVars>>

\* barrier.lock().unwrap().notify(): the count goes up; notify_all wakes the
\* main thread if it waits on the condvar
WorkerNotify ==
    /\ \E w \in DOMAIN workers :
        /\ workers[w].st = "notify"
        /\ workers' = [workers EXCEPT ![w] = Worker_new]
    /\ barrier' = JobBarrier_notify(barrier)
    /\ rpc' = IF JobBarrier_notifies(JobBarrier_notify(barrier)) /\ rpc = "waiting"
              THEN "exit" ELSE rpc
    /\ UNCHANGED <<row, sent, channel, started, finished>>
    /\ UNCHANGED <<worldVars, graphVars, queue, registryVars, scheduleVars, tableVars, sparseVars, blobVars, poolVars>>

RunnerNext ==
    \/ RunnerRun
    \/ RunnerRowBegin
    \/ RunnerSend
    \/ RunnerJoin
    \/ RunnerWaitCheck
    \/ RunnerWaitPark
    \/ RunnerWaitSpurious
    \/ RunnerRowEnd
    \/ WorkerRecv
    \/ WorkerFinish
    \/ WorkerNotify

(***************************************************************************)
(* system/observer/action.rs: the Actions resource of the observer module. *)
(* The map keeps its entries, [ty, priority, actions], in a Vec.           *)
(***************************************************************************)
\* ActionData::new::<A>()
ActionData_new(ty) == [ty |-> ty, priority |-> PRIORITY(ty), actions |-> <<>>]

\* the position of the entry of a type, 0 if there is none
ObserverActions_find(entries, ty) ==
    IF \E k \in 1..Len(entries) : entries[k].ty = ty
    THEN CHOOSE k \in 1..Len(entries) : entries[k].ty = ty
    ELSE 0

\* Actions::add once the entry was looked up
ObserverActions_add_at(entries, ty, action, at) ==
    IF at # 0 THEN [entries EXCEPT ![at].actions = Append(@, action)]
    ELSE Append(entries, [ActionData_new(ty) EXCEPT !.actions = <<action>>])

\* Actions::add
ObserverActions_add(entries, ty, action) ==
    ObserverActions_add_at(entries, ty, action, ObserverActions_find(entries, ty))

\* the comparator of Actions::sort: a.priority().cmp(&b.priority()) is Less
ObserverActions_less(a, b) == a.priority < b.priority

\* insertion of an entry into a list sorted by the comparator, behind the
\* entries it is not less than
RECURSIVE ObserverActions_sort_insert(_, _)
ObserverActions_sort_insert(sorted, data) ==
    IF sorted = <<>> THEN <<data>>
    ELSE IF ObserverActions_less(data, Head(sorted)) THEN <<data>> \o sorted
    ELSE <<Head(sorted)>> \o ObserverActions_sort_insert(Tail(sorted), data)

\* Actions::sort: self.actions.sort(|a, b| a.priority().cmp(&b.priority()))
RECURSIVE ObserverActions_sort(_)
ObserverActions_sort(entries) ==
    IF entries = <<>> THEN <<>>
    ELSE ObserverActions_sort_insert(
            ObserverActions_sort(SubSeq(entries, 1, Len(entries) - 1)),
            entries[Len(entries)])

\* Actions::is_empty
ObserverActions_is_empty(entries) ==
    \A k \in 1..Len(entries) : entries[k].actions = <<>>

\* Actions::execute, the entry whose actions run next: the first one, in the
\* order of values_mut(), that has actions left
ObserverActions_cursor(entries) ==
    CHOOSE k \in 1..Len(entries) :
        /\ entries[k].actions # <<>>
        /\ \A j \in 1..(k - 1) : entries[j].actions = <<>>

\* ActionOutputs::add of the observer module: the output is pushed
ObserverOutputs_add(outputs, ty, output) ==
    IF SparseMap_contains(outputs, ty)
    THEN [outputs EXCEPT ![ty] = Append(@, output)]
    ELSE SparseMap_insert(outputs, ty, <<output>>)

\* the closure of ActionData::new, one action:
\* outputs.add::<A>(action.execute(world))
ActionData_execute_done(outputs, ty, done) ==
    IF IsPanic(done.ret) THEN Res([world |-> done.st, outputs |-> outputs], Panic)
    ELSE Res([world |-> done.st,
              outputs |-> ObserverOutputs_add(outputs, ty, done.ret.val)],
             Some(TRUE))

ActionData_execute(w, outputs, ty, action) ==
    ActionData_execute_done(outputs, ty, Action_execute(w, ty, action))

(***************************************************************************)
(* The Actions resource of the observer module as a state machine: actions *)
(* are added, then execute(world) runs them.                               *)
(***************************************************************************)
\* the commands added to the resource
QueueCommands(w, entries) ==
    {<<T_CreateEntity, CreateEntity_new(<<>>)>> : a \in
        IF LiveCount(w) + Len(SelectSeq(entries, LAMBDA d : d.ty = T_CreateEntity))
                < MaxIndex
        THEN {0} ELSE {}}
    \cup {<<T_AddComponent(c), AddComponent_new(e, v)>> :
            e \in Handles(w), c \in ComponentIds, v \in Values}
    \cup {<<T_RemoveComponent(c), RemoveComponent_new(e)>> :
            e \in Handles(w), c \in ComponentIds}
    \cup {<<T_DeleteEntity, DeleteEntity_new(e)>> : e \in Handles(w)}

QueueInit == queue = <<>>

\* Actions::add
QueueAdd ==
    /\ pc = "idle"
    /\ pushed < MaxPending
    /\ \E cmd \in QueueCommands(world, queue) :
        queue' = ObserverActions_add(queue, cmd[1], cmd[2])
    /\ pushed' = pushed + 1
    /\ UNCHANGED <<world, executors, pc, taken, round, executed, invoked, issued, runs, handled>>
    /\ UNCHANGED <<graphVars, runnerVars, registryVars, scheduleVars, tableVars, sparseVars, blobVars, poolVars>>

\* Actions::execute begins: sort(), ActionOutputs::new()
QueueExecuteBegin ==
    /\ pc = "idle"
    /\ runs < MaxRuns
    /\ ~ObserverActions_is_empty(queue)
    /\ queue' = ObserverActions_sort(queue)
    /\ round' = ActionOutputs_new
    /\ executed' = <<>>
    /\ runs' = runs + 1
    /\ pc' = "execute"
    /\ UNCHANGED <<world, executors, taken, invoked, issued, pushed, handled>>
    /\ UNCHANGED <<graphVars, runnerVars, registryVars, scheduleVars, tableVars, sparseVars, blobVars, poolVars>>

\* Actions::execute, one action of the loops over values_mut() and over the
\* blob of the entry
QueueExecuteNext ==
    /\ pc = "execute"
    /\ ~ObserverActions_is_empty(queue)
    /\ \E k \in {ObserverActions_cursor(queue)} :
       \E done \in {ActionData_execute(world, round, queue[k].ty,
                                       Head(queue[k].actions))} :
           /\ world' = done.st.world
           /\ round' = done.st.outputs
           /\ queue' = [queue EXCEPT ![k].actions = Tail(@)]
           /\ pc' = IF IsPanic(done.ret) THEN "panicked" ELSE "execute"
           /\ executed' = IF IsPanic(done.ret) THEN executed
                          ELSE Append(executed, <<queue[k].ty, Head(queue[k].actions)>>)
    /\ UNCHANGED <<executors, taken, invoked, issued, runs, pushed, handled>>
    /\ UNCHANGED <<graphVars, runnerVars, registryVars, scheduleVars, tableVars, sparseVars, blobVars, poolVars>>

\* Actions::execute returns the outputs
QueueExecuteEnd ==
    /\ pc = "execute"
    /\ ObserverActions_is_empty(queue)
    /\ pc' = "idle"
    /\ UNCHANGED <<world, executors, taken, round, executed, invoked, issued, runs, pushed, handled>>
    /\ UNCHANGED <<queue, graphVars, runnerVars, registryVars, scheduleVars, tableVars, sparseVars, blobVars, poolVars>>

QueueNext ==
    \/ QueueAdd
    \/ QueueExecuteBegin
    \/ QueueExecuteNext
    \/ QueueExecuteEnd

(***************************************************************************)
(* core/component.rs: the Components registry as a state machine.          *)
(***************************************************************************)
\* the component types a program registers
ComponentTypes == {"A", "B", "C"}

\* Components::new
Components_new == [components |-> <<>>, id_map |-> SparseMap_new]

\* Components::register: the ComponentMeta pushed is modelled by its type
Components_register(c, ty) ==
    Res([components |-> Append(c.components, ty),
         id_map |-> SparseMap_insert(c.id_map, ty, Len(c.components))],
        Len(c.components))

\* Components::len
Components_len(c) == Len(c.components)

\* Components::get_id
Components_get_id(c, ty) ==
    IF SparseMap_contains(c.id_map, ty) THEN Some(c.id_map[ty]) ELSE None

RegistryInit ==
    /\ components = Components_new
    /\ registered = <<>>

\* World::register::<C>()
RegistryRegister ==
    /\ Len(registered) < MaxRegistrations
    /\ \E ty \in ComponentTypes :
       \E done \in {Components_register(components, ty)} :
           /\ components' = done.st
           /\ registered' = Append(registered, <<ty, done.ret>>)
    /\ UNCHANGED <<worldVars, graphVars, runnerVars, queue, scheduleVars, tableVars, sparseVars, blobVars, poolVars>>

RegistryNext == RegistryRegister

(***************************************************************************)
(* schedule/mod.rs and world/mod.rs: the GlobalSchedules of the world as a *)
(* state machine: systems and schedules are added to phases, the schedules *)
(* are built, World::run runs a phase.  A Schedule is modelled by its      *)
(* SystemGraph, its runner being always the ParallelRunner.                *)
(***************************************************************************)
Phases == {"Update", "PostUpdate"}

Labels == {"DefaultLabel", "Label"}

\* the systems added: no World access, no explicit ordering
ScheduleSystems ==
    {System_new(<<>>, <<>>), System_new(<<>>, <<"R">>), System_new(<<"R">>, <<>>)}

\* Schedule::new
Schedule_new == SystemGraph_new

\* Schedule::add_system
Schedule_add_system(schedule, system) ==
    SystemGraph_add_system([g |-> schedule, ids |-> <<>>], system).g

\* SystemGraph::append: the nodes are appended, self.hierarchy is not touched
SystemGraph_append(g, other) == [g EXCEPT !.nodes = @ \o other.nodes]

\* Schedule::append
Schedule_append(schedule, other) == SystemGraph_append(schedule, other)

\* Schedules::new
Schedules_new == SparseMap_new

\* Schedules::add_system
Schedules_add_system(s, phase, label, system) ==
    IF SparseMap_contains(s, phase)
    THEN IF SparseMap_contains(s[phase], label)
         THEN [s EXCEPT ![phase][label] = Schedule_add_system(@, system)]
         ELSE [s EXCEPT ![phase] =
                    SparseMap_insert(@, label, Schedule_add_system(Schedule_new, system))]
    ELSE SparseMap_insert(s, phase,
            SparseMap_insert(SparseMap_new, label,
                             Schedule_add_system(Schedule_new, system)))

\* Schedules::add_schedule
Schedules_add_schedule(s, phase, label, schedule) ==
    IF SparseMap_contains(s, phase)
    THEN IF SparseMap_contains(s[phase], label)
         THEN [s EXCEPT ![phase][label] = Schedule_append(@, schedule)]
         ELSE [s EXCEPT ![phase] = SparseMap_insert(@, label, schedule)]
    ELSE SparseMap_insert(s, phase, SparseMap_insert(SparseMap_new, label, schedule))

\* Schedules::build: Schedule::build of every schedule; Some, Panic or Hang
\* as the builds end
Schedules_build(s) ==
    LET built == [phase \in DOMAIN s |->
                    [label \in DOMAIN s[phase] |-> SystemGraph_build(s[phase][label])]]
        rets == UNION {{built[phase][label].ret : label \in DOMAIN s[phase]} :
                            phase \in DOMAIN s}
    IN  Res([phase \in DOMAIN s |->
                [label \in DOMAIN s[phase] |-> built[phase][label].st]],
            IF Hang \in rets THEN Hang ELSE IF Panic \in rets THEN Panic ELSE Some(TRUE))

\* ParallelRunner::run: the nodes whose run it called, row after row; every
\* job sent to the pool of a row is run once
RECURSIVE ParallelRunner_run(_)
ParallelRunner_run(hierarchy) ==
    IF hierarchy = <<>> THEN <<>>
    ELSE Head(hierarchy) \o ParallelRunner_run(Tail(hierarchy))

\* Schedules::run, `for schedule in phase.values()` over the labels left
RECURSIVE Schedules_run_values(_, _, _)
Schedules_run_values(schedules_of_phase, labels, phase) ==
    IF labels = {} THEN <<>>
    ELSE LET label == CHOOSE l \in labels : TRUE
         IN  [n \in 1..Len(ParallelRunner_run(schedules_of_phase[label].hierarchy)) |->
                 <<phase, label,
                   ParallelRunner_run(schedules_of_phase[label].hierarchy)[n]>>]
             \o Schedules_run_values(schedules_of_phase, labels \ {label}, phase)

\* Schedules::run::<P>: the <<phase, label, node>> that were run
Schedules_run(s, phase) ==
    IF SparseMap_contains(s, phase)
    THEN Schedules_run_values(s[phase], DOMAIN s[phase], phase)
    ELSE <<>>

\* the number of systems registered, over all the phases
Schedules_size(s) ==
    LET keys == {<<phase, label>> \in Phases \X Labels :
                    phase \in DOMAIN s /\ label \in DOMAIN s[phase]}
        sizes == [k \in keys |-> Len(s[k[1]][k[2]].nodes)]
        sum[ks \in SUBSET keys] ==
            IF ks = {} THEN 0
            ELSE LET k == CHOOSE x \in ks : TRUE IN sizes[k] + sum[ks \ {k}]
    IN  sum[keys]

\* the schedules a program hands to World::add_schedule: one system, with
\* Schedule::build called on it or not
UserSchedules ==
    {Schedule_add_system(Schedule_new, system) : system \in ScheduleSystems}
    \cup {SystemGraph_build(Schedule_add_system(Schedule_new, system)).st :
                system \in ScheduleSystems}

ScheduleInit ==
    /\ schedules = Schedules_new
    /\ lastRun = None

\* World::add_system (the label is DefaultLabel) and World::add_labeled_system
ScheduleAddSystem ==
    /\ Schedules_size(schedules) < MaxNodes
    /\ \E phase \in Phases, label \in Labels, system \in ScheduleSystems :
        schedules' = Schedules_add_system(schedules, phase, label, system)
    /\ lastRun' = None
    /\ UNCHANGED <<worldVars, graphVars, runnerVars, queue, registryVars, tableVars, sparseVars, blobVars, poolVars>>

\* World::add_schedule (the label is DefaultLabel) and
\* World::add_labeled_schedule
ScheduleAddSchedule ==
    /\ Schedules_size(schedules) < MaxNodes
    /\ \E phase \in Phases, label \in Labels, schedule \in UserSchedules :
        schedules' = Schedules_add_schedule(schedules, phase, label, schedule)
    /\ lastRun' = None
    /\ UNCHANGED <<worldVars, graphVars, runnerVars, queue, registryVars, tableVars, sparseVars, blobVars, poolVars>>

\* GlobalSchedules::build, called by the program: World never calls it
ScheduleBuild ==
    /\ \E done \in {Schedules_build(schedules)} :
        /\ IsSome(done.ret)
        /\ schedules' = done.st
    /\ lastRun' = None
    /\ UNCHANGED <<worldVars, graphVars, runnerVars, queue, registryVars, tableVars, sparseVars, blobVars, poolVars>>

\* World::run::<P>(): Schedules::run::<P> of the GlobalSchedules
ScheduleRun ==
    /\ \E phase \in Phases :
        lastRun' = Some([phase |-> phase, nodes |-> Schedules_run(schedules, phase)])
    /\ UNCHANGED schedules
    /\ UNCHANGED <<worldVars, graphVars, runnerVars, queue, registryVars, tableVars, sparseVars, blobVars, poolVars>>

ScheduleNext ==
    \/ ScheduleAddSystem
    \/ ScheduleAddSchedule
    \/ ScheduleBuild
    \/ ScheduleRun

(***************************************************************************)
(* storage/table.rs: a Table<I> as a state machine: the builder gets its   *)
(* columns, build() makes the table, rows are added and removed.  A Column *)
(* is modelled by the number of elements of its Blob.                      *)
(***************************************************************************)
\* the ids of the rows
TableIds == {Entity_new(0, 0), Entity_new(1, 0), Entity_new(0, 1)}

\* Column::from_layout: an empty Blob
Column_from_layout == [len |-> 0]

\* Column::len
Column_len(column) == column.len

\* Column::swap_remove -> Blob::swap_remove: `self.len -= 1`
Column_swap_remove(column) == [column EXCEPT !.len = @ - 1]

\* TableBuilder::with_capacity
TableBuilder_with_capacity == [columns |-> SparseMap_new]

\* TableBuilder::add_column
TableBuilder_add_column(builder, index) ==
    [builder EXCEPT !.columns = SparseMap_insert(@, index, Column_from_layout)]

\* TableBuilder::build
TableBuilder_build(builder) ==
    [columns |-> builder.columns, rows |-> <<>>, sparse |-> SparseSet_new]

\* Table::add_row, `inserted` being self.sparse.insert(index, row): the id
\* is pushed onto rows; no column is touched
IdTable_add_row_with(t, id, inserted) ==
    IF IsPanic(inserted.ret) THEN Res(t, Panic)
    ELSE Res([t EXCEPT !.rows = Append(@, id), !.sparse = inserted.st],
             Some(Len(t.rows)))

\* Table::add_row(id)
IdTable_add_row(t, id) ==
    IdTable_add_row_with(t, id, SparseSet_insert(t.sparse, Len(t.rows), Len(t.rows)))

\* Table::remove_row, `removed` being self.sparse.remove(index).  A column
\* with no element at `index` makes Blob::swap_remove read out of bounds
\* and take 1 from a length of 0: the outcome is undefined
IdTable_remove_row_with(t, index, removed) ==
    IF IsPanic(removed.ret) THEN Res(t, Panic)
    ELSE IF \E c \in DOMAIN t.columns : Column_len(t.columns[c]) <= index
    THEN Res(t, [tag |-> "undefined"])
    ELSE Res([columns |-> [c \in DOMAIN t.columns |-> Column_swap_remove(t.columns[c])],
              rows |-> Vec_swap_remove(t.rows, index),
              sparse |-> removed.st],
             Some(t.rows[index + 1]))

\* Table::remove_row(row)
IdTable_remove_row(t, index) ==
    IF index < Len(t.rows)
    THEN IdTable_remove_row_with(t, index, SparseSet_remove(t.sparse, index))
    ELSE Res(t, None)

TableInit ==
    /\ table = TableBuilder_with_capacity
    /\ tpc = "building"

\* TableBuilder::add_column
TableAddColumn ==
    /\ tpc = "building"
    /\ \E index \in ComponentIds :
        table' = TableBuilder_add_column(table, index)
    /\ tpc' = tpc
    /\ UNCHANGED <<worldVars, graphVars, runnerVars, queue, registryVars, scheduleVars, sparseVars, blobVars, poolVars>>

\* TableBuilder::build
TableBuild ==
    /\ tpc = "building"
    /\ table' = TableBuilder_build(table)
    /\ tpc' = "built"
    /\ UNCHANGED <<worldVars, graphVars, runnerVars, queue, registryVars, scheduleVars, sparseVars, blobVars, poolVars>>

\* Table::add_row
TableAddRow ==
    /\ tpc = "built"
    /\ Len(table.rows) < MaxRows
    /\ \E id \in TableIds :
       \E done \in {IdTable_add_row(table, id)} :
           /\ table' = done.st
           /\ tpc' = IF IsPanic(done.ret) THEN "panicked" ELSE "built"
    /\ UNCHANGED <<worldVars, graphVars, runnerVars, queue, registryVars, scheduleVars, sparseVars, blobVars, poolVars>>

\* Table::remove_row
TableRemoveRow ==
    /\ tpc = "built"
    /\ \E index \in 0..MaxRows :
       \E done \in {IdTable_remove_row(table, index)} :
           /\ table' = done.st
           /\ tpc' = IF IsPanic(done.ret) THEN "panicked"
                     ELSE IF IsSome(done.ret) \/ IsNone(done.ret) THEN "built"
                     ELSE "undefined"
    /\ UNCHANGED <<worldVars, graphVars, runnerVars, queue, registryVars, scheduleVars, sparseVars, blobVars, poolVars>>

TableNext ==
    \/ TableAddColumn
    \/ TableBuild
    \/ TableAddRow
    \/ TableRemoveRow

(***************************************************************************)
(* storage/sparse.rs: a SparseSet<V> as a state machine: values are        *)
(* inserted under keys and removed, in any order of the keys.              *)
(***************************************************************************)
\* the keys of the calls
Keys == 0..MaxKey

SparseInit ==
    /\ sset = SparseSet_new
    /\ latest = [k \in Keys |-> None]
    /\ spc = "ok"

\* SparseSet::insert(index, value)
SparseInsert ==
    /\ spc = "ok"
    /\ \E index \in Keys : \E value \in Values :
       \E done \in {SparseSet_insert(sset, index, value)} :
           /\ sset' = done.st
           /\ latest' = [latest EXCEPT ![index] = Some(value)]
           /\ spc' = IF IsPanic(done.ret) THEN "panicked" ELSE "ok"
    /\ UNCHANGED <<worldVars, graphVars, runnerVars, queue, registryVars, scheduleVars, tableVars, blobVars, poolVars>>

\* SparseSet::remove(index)
SparseRemove ==
    /\ spc = "ok"
    /\ \E index \in Keys :
       \E done \in {SparseSet_remove(sset, index)} :
           /\ sset' = done.st
           /\ latest' = [latest EXCEPT ![index] = None]
           /\ spc' = IF IsPanic(done.ret) THEN "panicked" ELSE "ok"
    /\ UNCHANGED <<worldVars, graphVars, runnerVars, queue, registryVars, scheduleVars, tableVars, blobVars, poolVars>>

SparseNext ==
    \/ SparseInsert
    \/ SparseRemove

(***************************************************************************)
(* storage/blob.rs: a Blob as a state machine.  A Blob is the record of    *)
(* its fields; `data` is the number of bytes of the block the pointer      *)
(* names, `elems` the elements in the slots below `len`.  An operation     *)
(* answers with the new Blob and with `ub`: whether it handed the          *)
(* allocator a freed pointer or a size of 0, or touched a slot outside the *)
(* block.                                                                  *)
(***************************************************************************)
\* the layouts of the elements: Layout { size, align }
Layouts == [size : 0..MaxSize, align : {1, 2, 4}]

\* the `data` of a Blob whose block has been freed
Dangling == -1

\* the new Blob of an operation and whether its behaviour was undefined
Out(st, ub) == [st |-> st, ub |-> ub]

\* usize::is_power_of_two, usize::next_power_of_two
is_power_of_two(n) == n \in {1, 2, 4, 8}
next_power_of_two(n) == CHOOSE p \in {1, 2, 4, 8} : p >= n /\ \A q \in {1, 2, 4, 8} : q >= n => p <= q

\* Blob::align_layout (a Layout has size <= isize::MAX: no sum wraps)
Blob_align_layout(layout) ==
    LET align == IF is_power_of_two(layout.align) THEN layout.align
                 ELSE next_power_of_two(layout.align)
        size == layout.size
        padding == (align - (size % align)) % align
    IN  [size |-> size + padding, align |-> align]

\* the slot `index` of the Blob lies inside the block of `data`
InStorage(b, index) ==
    /\ b.data # Dangling
    /\ (index + 1) * b.aligned_layout.size <= b.data

\* Blob::new::<T>: one element is allocated
Blob_new(layout, needs_drop) ==
    Out([capacity |-> 1, len |-> 0, layout |-> layout,
         aligned_layout |-> Blob_align_layout(layout),
         data |-> Blob_align_layout(layout).size,
         drop |-> needs_drop, elems |-> <<>>],
        Blob_align_layout(layout).size = 0)

\* Blob::from_layout: aligned_layout.size() * capacity bytes are allocated
Blob_from_layout(layout, drop, capacity) ==
    Out([capacity |-> capacity, len |-> 0, layout |-> layout,
         aligned_layout |-> Blob_align_layout(layout),
         data |-> Blob_align_layout(layout).size * capacity,
         drop |-> drop, elems |-> <<>>],
        Blob_align_layout(layout).size * capacity = 0)

\* Blob::with_capacity::<T>: alloc(aligned_layout), one element, is
\* allocated whatever the capacity
Blob_with_capacity(layout, needs_drop, capacity) ==
    Out([capacity |-> capacity, len |-> 0, layout |-> layout,
         aligned_layout |-> Blob_align_layout(layout),
         data |-> Blob_align_layout(layout).size,
         drop |-> needs_drop, elems |-> <<>>],
        Blob_align_layout(layout).size = 0)

\* Blob::clear: the length is 0, the block is reallocated to one element
\* and freed, `data` keeps the old pointer, the capacity is 0; no
\* destructor is called
Blob_clear(b) ==
    Out([b EXCEPT !.len = 0, !.elems = <<>>, !.data = Dangling, !.capacity = 0],
        b.data = Dangling \/ b.aligned_layout.size = 0)

\* Blob::forget
Blob_forget(b) == [b EXCEPT !.len = 0, !.elems = <<>>, !.capacity = 0]

\* Blob::grow_exact: realloc(data, _, new_capacity * aligned_layout.size())
Blob_grow_exact(b, new_capacity) ==
    Out([b EXCEPT !.capacity = new_capacity,
                  !.data = new_capacity * b.aligned_layout.size],
        b.data = Dangling \/ new_capacity * b.aligned_layout.size = 0)

\* Blob::grow: the capacity is doubled
Blob_grow(b) == Blob_grow_exact(b, b.capacity * 2)

\* the Blob with the value written to the slot `len`
Blob_written(grown, value) ==
    Out([grown.st EXCEPT !.elems = Append(@, value), !.len = @ + 1],
        grown.ub \/ ~InStorage(grown.st, grown.st.len))

\* Blob::push and Blob::push_data
Blob_push(b, value) ==
    Blob_written(IF b.len >= b.capacity THEN Blob_grow(b) ELSE Out(b, FALSE), value)

\* the Blob with the elements of `other` copied behind its own
Blob_copied(grown, other) ==
    Out([grown.st EXCEPT !.elems = @ \o other.elems, !.len = @ + other.len],
        \/ grown.ub
        \/ other.len > 0 /\ ~InStorage(grown.st, grown.st.len + other.len - 1)
        \/ other.len > 0 /\ ~InStorage(other, other.len - 1))

\* Blob::merge; `other` is forgotten: its Drop destructs nothing
Blob_merge(b, other) ==
    Blob_copied(IF b.len + other.len > b.capacity
                THEN Blob_grow_exact(b, b.len + other.len)
                ELSE Out(b, FALSE), other)

\* the Blob that Blob::swap_remove returns: from_layout(layout, drop, 1)
\* with the element of the slot pushed
Blob_removed(b, index) ==
    Blob_push(Blob_from_layout(b.layout, b.drop, 1).st, b.elems[index + 1])

\* Blob::swap_remove: the slot is copied out, the last slot is copied over
\* it when the length is above 1, the length goes down by 1
Blob_swap_remove(b, index) ==
    [st |-> [b EXCEPT !.elems = SubSeq(IF b.len > 1
                                       THEN [@ EXCEPT ![index + 1] = b.elems[b.len]]
                                       ELSE @, 1, b.len - 1),
                      !.len = @ - 1],
     ret |-> Blob_removed(b, index).st,
     ub |-> \/ Blob_removed(b, index).ub
            \/ ~InStorage(b, index)
            \/ ~InStorage(b, b.len - 1)]

\* Drop for Blob: the elements whose destructor runs
Blob_drop(b) ==
    IF b.capacity > 0 /\ b.drop THEN {b.elems[i] : i \in 1..b.len} ELSE {}

\* Drop for Blob hands every element to drop::<T>, which frees the slot
\* as a Box<T> before the block is deallocated
Blob_drop_ub(b) == b.capacity > 0 /\ (b.data = Dangling \/ (b.drop /\ b.len > 0))

\* the elements made
Elems == 1..MaxElems

\* the outcomes of an operation: it went on, or the undefined behaviour
\* showed
Outcomes(ub) == IF ub THEN {"live", "undefined"} ELSE {"live"}

BlobInit ==
    /\ blob = None
    /\ single = None
    /\ destructed = [e \in Elems |-> 0]
    /\ nelems = 0
    /\ bpc = "none"

\* Blob::new::<T>()
BlobNew ==
    /\ bpc = "none"
    /\ \E layout \in Layouts : \E needs_drop \in BOOLEAN :
       \E done \in {Blob_new(layout, needs_drop)} :
           /\ blob' = done.st
           /\ bpc' \in Outcomes(done.ub)
    /\ UNCHANGED <<single, destructed, nelems>>
    /\ UNCHANGED <<worldVars, graphVars, runnerVars, queue, registryVars, scheduleVars, tableVars, sparseVars, poolVars>>

\* Blob::with_capacity::<T>(capacity)
BlobWithCapacity ==
    /\ bpc = "none"
    /\ \E layout \in Layouts : \E needs_drop \in BOOLEAN : \E capacity \in 1..MaxCapacity :
       \E done \in {Blob_with_capacity(layout, needs_drop, capacity)} :
           /\ blob' = done.st
           /\ bpc' \in Outcomes(done.ub)
    /\ UNCHANGED <<single, destructed, nelems>>
    /\ UNCHANGED <<worldVars, graphVars, runnerVars, queue, registryVars, scheduleVars, tableVars, sparseVars, poolVars>>

\* Blob::from_layout(layout, drop, capacity)
BlobFromLayout ==
    /\ bpc = "none"
    /\ \E layout \in Layouts : \E needs_drop \in BOOLEAN : \E capacity \in 1..MaxCapacity :
       \E done \in {Blob_from_layout(layout, needs_drop, capacity)} :
           /\ blob' = done.st
           /\ bpc' \in Outcomes(done.ub)
    /\ UNCHANGED <<single, destructed, nelems>>
    /\ UNCHANGED <<worldVars, graphVars, runnerVars, queue, registryVars, scheduleVars, tableVars, sparseVars, poolVars>>

\* Blob::push(value), the value being a new element
BlobPush ==
    /\ bpc = "live"
    /\ nelems < MaxElems
    /\ \E done \in {Blob_push(blob, nelems + 1)} :
           /\ blob' = done.st
           /\ bpc' \in Outcomes(done.ub)
    /\ nelems' = nelems + 1
    /\ UNCHANGED <<single, destructed>>
    /\ UNCHANGED <<worldVars, graphVars, runnerVars, queue, registryVars, scheduleVars, tableVars, sparseVars, poolVars>>

\* Blob::merge(other), `other` being a Blob of the same layout into which
\* new elements were pushed
BlobMerge ==
    /\ bpc = "live"
    /\ \E k \in 0..(MaxElems - nelems) :
       \E other \in {IF k = 0 THEN Blob_new(blob.layout, blob.drop)
                     ELSE IF k = 1
                     THEN Blob_push(Blob_new(blob.layout, blob.drop).st, nelems + 1)
                     ELSE Blob_push(Blob_push(Blob_new(blob.layout, blob.drop).st,
                                              nelems + 1).st, nelems + 2)} :
       \E done \in {Blob_merge(blob, other.st)} :
           /\ k <= 2
           /\ blob' = done.st
           /\ bpc' \in Outcomes(done.ub \/ other.ub)
           /\ nelems' = nelems + k
    /\ UNCHANGED <<single, destructed>>
    /\ UNCHANGED <<worldVars, graphVars, runnerVars, queue, registryVars, scheduleVars, tableVars, sparseVars, poolVars>>

\* Blob::swap_remove(index) with an index below the length; the caller
\* holds the Blob that is returned
BlobSwapRemove ==
    /\ bpc = "live"
    /\ single = None
    /\ \E index \in 0..(blob.len - 1) :
       \E done \in {Blob_swap_remove(blob, index)} :
           /\ blob' = done.st
           /\ single' = Some(done.ret)
           /\ bpc' \in Outcomes(done.ub)
    /\ UNCHANGED <<destructed, nelems>>
    /\ UNCHANGED <<worldVars, graphVars, runnerVars, queue, registryVars, scheduleVars, tableVars, sparseVars, poolVars>>

\* the Blob that swap_remove returned goes out of scope, as in
\* Column::swap_remove
BlobSingleDrop ==
    /\ bpc \in {"live", "dropped"}
    /\ IsSome(single)
    /\ destructed' = [e \in Elems |->
            IF e \in Blob_drop(single.val) THEN destructed[e] + 1 ELSE destructed[e]]
    /\ single' = None
    /\ bpc' \in (IF Blob_drop_ub(single.val) THEN {bpc, "undefined"} ELSE {bpc})
    /\ UNCHANGED <<blob, nelems>>
    /\ UNCHANGED <<worldVars, graphVars, runnerVars, queue, registryVars, scheduleVars, tableVars, sparseVars, poolVars>>

\* Blob::clear()
BlobClear ==
    /\ bpc = "live"
    /\ \E done \in {Blob_clear(blob)} :
           /\ blob' = done.st
           /\ bpc' \in Outcomes(done.ub)
    /\ UNCHANGED <<single, destructed, nelems>>
    /\ UNCHANGED <<worldVars, graphVars, runnerVars, queue, registryVars, scheduleVars, tableVars, sparseVars, poolVars>>

\* the Blob goes out of scope: Drop for Blob
BlobDrop ==
    /\ bpc = "live"
    /\ destructed' = [e \in Elems |->
            IF e \in Blob_drop(blob) THEN destructed[e] + 1 ELSE destructed[e]]
    /\ bpc' \in (IF Blob_drop_ub(blob) THEN {"dropped", "undefined"} ELSE {"dropped"})
    /\ UNCHANGED <<blob, single, nelems>>
    /\ UNCHANGED <<worldVars, graphVars, runnerVars, queue, registryVars, scheduleVars, tableVars, sparseVars, poolVars>>

BlobNext ==
    \/ BlobNew
    \/ BlobWithCapacity
    \/ BlobFromLayout
    \/ BlobPush
    \/ BlobMerge
    \/ BlobSwapRemove
    \/ BlobSingleDrop
    \/ BlobClear
    \/ BlobDrop

(***************************************************************************)
(* tasks/mod.rs: a TaskPool as a state machine.  The owner makes the pool, *)
(* hands jobs to execute and calls join (Drop calls it too); every worker  *)
(* thread loops over `receiver.lock().unwrap().recv().unwrap()`.           *)
(***************************************************************************)
\* the jobs handed to execute
Jobs == 1..MaxJobs

PoolInit ==
    /\ threads = <<>>
    /\ mailbox = <<>>
    /\ performed = [j \in Jobs |-> 0]
    /\ submitted = 0
    /\ ppc = [at |-> "none", worker |-> 0]

\* TaskPool::new(size): `size` threads are spawned, each about to receive
PoolNew ==
    /\ ppc.at = "none"
    /\ \E size \in 1..MaxWorkers :
        threads' = [id \in 1..size |-> [at |-> "recv", job |-> 0]]
    /\ ppc' = [at |-> "open", worker |-> 0]
    /\ UNCHANGED <<mailbox, performed, submitted>>
    /\ UNCHANGED <<worldVars, graphVars, runnerVars, queue, registryVars, scheduleVars, tableVars, sparseVars, blobVars>>

\* TaskPool::execute(f): self.sender.send(Some(Box::new(f)))
PoolExecute ==
    /\ ppc.at = "open"
    /\ submitted < MaxJobs
    /\ mailbox' = Append(mailbox, Some(submitted + 1))
    /\ submitted' = submitted + 1
    /\ UNCHANGED <<threads, performed, ppc>>
    /\ UNCHANGED <<worldVars, graphVars, runnerVars, queue, registryVars, scheduleVars, tableVars, sparseVars, blobVars>>

\* TaskPool::join is called: the loop over the workers begins
PoolJoin ==
    /\ ppc.at = "open"
    /\ ppc' = [at |-> "send", worker |-> 1]
    /\ UNCHANGED <<threads, mailbox, performed, submitted>>
    /\ UNCHANGED <<worldVars, graphVars, runnerVars, queue, registryVars, scheduleVars, tableVars, sparseVars, blobVars>>

\* the body of the loop of join: self.sender.send(None)
PoolJoinSend ==
    /\ ppc.at = "send"
    /\ mailbox' = Append(mailbox, None)
    /\ ppc' = [ppc EXCEPT !.at = "join"]
    /\ UNCHANGED <<threads, performed, submitted>>
    /\ UNCHANGED <<worldVars, graphVars, runnerVars, queue, registryVars, scheduleVars, tableVars, sparseVars, blobVars>>

\* the body of the loop of join: worker.thread.take() is joined, which
\* returns when the thread of this worker has exited
PoolJoinThread ==
    /\ ppc.at = "join"
    /\ threads[ppc.worker].at = "exited"
    /\ ppc' = IF ppc.worker = Len(threads) THEN [at |-> "joined", worker |-> 0]
              ELSE [at |-> "send", worker |-> ppc.worker + 1]
    /\ UNCHANGED <<threads, mailbox, performed, submitted>>
    /\ UNCHANGED <<worldVars, graphVars, runnerVars, queue, registryVars, scheduleVars, tableVars, sparseVars, blobVars>>

\* a worker thread: recv() returns the oldest message to the thread that
\* holds the lock of the receiver; None breaks the loop
PoolWorkerRecv(id) ==
    /\ threads[id].at = "recv"
    /\ mailbox # <<>>
    /\ threads' = [threads EXCEPT ![id] =
            IF IsSome(Head(mailbox)) THEN [at |-> "job", job |-> Head(mailbox).val]
            ELSE [at |-> "exited", job |-> 0]]
    /\ mailbox' = Tail(mailbox)
    /\ UNCHANGED <<performed, submitted, ppc>>
    /\ UNCHANGED <<worldVars, graphVars, runnerVars, queue, registryVars, scheduleVars, tableVars, sparseVars, blobVars>>

\* a worker thread: job() has run, the loop goes on
PoolWorkerRun(id) ==
    /\ threads[id].at = "job"
    /\ performed' = [performed EXCEPT ![threads[id].job] = @ + 1]
    /\ threads' = [threads EXCEPT ![id] = [at |-> "recv", job |-> 0]]
    /\ UNCHANGED <<mailbox, submitted, ppc>>
    /\ UNCHANGED <<worldVars, graphVars, runnerVars, queue, registryVars, scheduleVars, tableVars, sparseVars, blobVars>>

\* the steps of the worker threads
PoolWorker ==
    \E id \in DOMAIN threads : PoolWorkerRecv(id) \/ PoolWorkerRun(id)

PoolNext ==
    \/ PoolNew
    \/ PoolExecute
    \/ PoolJoin
    \/ PoolJoinSend
    \/ PoolJoinThread
    \/ PoolWorker

(***************************************************************************)
(* The specifications.                                                     *)
(***************************************************************************)
vars == <<worldVars, graphVars, runnerVars, queue, registryVars, scheduleVars, tableVars, sparseVars, blobVars, poolVars>>

\* the world: runs of a phase with their flushes
Init == WorldInit /\ GraphInit /\ RunnerInit /\ QueueInit /\ RegistryInit /\ ScheduleInit /\ TableInit /\ SparseInit /\ BlobInit /\ PoolInit

Next == WorldNext

Spec == Init /\ [][Next]_vars

\* the world whose systems also hand over buffers of their own
AppendNext == WorldNext \/ SystemAppend

AppendSpec == Init /\ [][AppendNext]_vars

\* the system graph: add_system, then build

GraphSpecInit == GraphInit /\ WorldInit /\ executors = <<>> /\ RunnerInit /\ QueueInit /\ RegistryInit /\ ScheduleInit /\ TableInit /\ SparseInit /\ BlobInit /\ PoolInit

GraphSpec == GraphSpecInit /\ [][GraphNext]_vars

\* ParallelRunner::run over the graphs build() made
RunnerSpecInit ==
    /\ graph \in RunnerGraphs
    /\ gpc = "built"
    /\ ordered = {}
    /\ RunnerInit
    /\ WorldInit /\ executors = <<>>
    /\ QueueInit /\ RegistryInit /\ ScheduleInit /\ TableInit /\ SparseInit /\ BlobInit /\ PoolInit

RunnerSpec == RunnerSpecInit /\ [][RunnerNext]_vars

\* ParallelRunner::run with its threads scheduled: the main thread and the
\* workers take the steps they can take; no wakeup of Condvar::wait without
\* a notification is promised
RunnerFairSpec ==
    /\ RunnerSpec
    /\ WF_vars(RunnerRun \/ RunnerRowBegin \/ RunnerSend \/ RunnerJoin
                \/ RunnerWaitCheck \/ RunnerWaitPark \/ RunnerRowEnd)
    /\ WF_vars(WorkerRecv \/ WorkerFinish \/ WorkerNotify)

\* the Actions resource of the observer module over the world
QueueSpecInit == WorldInit /\ executors = <<>> /\ GraphInit /\ RunnerInit /\ QueueInit /\ RegistryInit /\ ScheduleInit /\ TableInit /\ SparseInit /\ BlobInit /\ PoolInit

QueueSpec == QueueSpecInit /\ [][QueueNext]_vars

\* the Components registry: calls of World::register
RegistrySpecInit == Init /\ executors = <<>>

RegistrySpec == RegistrySpecInit /\ [][RegistryNext]_vars

\* a table of storage/table.rs
TableSpecInit == Init /\ executors = <<>>

TableSpec == TableSpecInit /\ [][TableNext]_vars

\* a SparseSet of storage/sparse.rs
SparseSpecInit == Init /\ executors = <<>>

SparseSpec == SparseSpecInit /\ [][SparseNext]_vars

\* a Blob of storage/blob.rs
BlobSpecInit == Init /\ executors = <<>>

BlobSpec == BlobSpecInit /\ [][BlobNext]_vars

\* a TaskPool of tasks/mod.rs
PoolSpecInit == Init /\ executors = <<>>

PoolSpec == PoolSpecInit /\ [][PoolNext]_vars

\* the TaskPool whose threads are scheduled: a worker that can take a step
\* takes one, and so does the owner inside join
PoolFairSpec ==
    /\ PoolSpec
    /\ WF_vars(PoolWorker)
    /\ WF_vars(PoolJoinSend \/ PoolJoinThread)

\* the schedules of the world: systems are added, phases are run
ScheduleSpecInit == Init /\ executors = <<>>

ScheduleSpec == ScheduleSpecInit /\ [][ScheduleNext]_vars

(***************************************************************************)
(* Properties of the world.                                                *)
(***************************************************************************)
\* the flush of the current run is over: it returned, or it panicked
FlushOver == runs > 0 /\ pc \in {"idle", "panicked"}

\* the commands of the current run, other than i, that name an entity with
\* the index of the entity of i
Others(i) ==
    {j \in issued : /\ j # i
                    /\ j.ty # T_CreateEntity
                    /\ Entity_id(j.action.entity) = Entity_id(i.action.entity)}

\* every command of the current run that names an entity was enqueued while
\* that entity was live
AllLive == \A j \in issued : j.ty = T_CreateEntity \/ j.live

\* the AddComponent commands of the current run enqueued for a live entity
\* that no other command of the run names, in a run whose commands all name
\* live entities
AddCases ==
    {i \in issued : i.ty[1] = "AddComponent" /\ AllLive /\ Others(i) = {}}

\* C1: once an AddComponent<C>(e, v) enqueued for a live entity e has been
\* flushed, has::<C>(e) is true and component::<C>(e) is v
C1_AddThenFlush ==
    FlushOver =>
        \A i \in AddCases :
            /\ pc = "idle"
            /\ World_has(world, i.action.entity, i.ty[2]) = Some(TRUE)
            /\ World_component(world, i.action.entity, i.ty[2])
                    = Some(i.action.component)

\* the RemoveComponent commands of the current run enqueued for a live
\* entity that no other command of the run names, in a run whose commands
\* all name live entities
RemoveCases ==
    {i \in issued : i.ty[1] = "RemoveComponent" /\ AllLive /\ Others(i) = {}}

\* C2: once a RemoveComponent<C>(e) enqueued for a live entity e has been
\* flushed, has::<C>(e) is false
C2_RemoveThenFlush ==
    FlushOver =>
        \A i \in RemoveCases :
            /\ pc = "idle"
            /\ World_has(world, i.action.entity, i.ty[2]) = Some(FALSE)

\* the DeleteEntity commands of the current run enqueued for a live entity
\* that no other command of the run names, in a run whose commands all name
\* live entities
DeleteCases ==
    {i \in issued : i.ty = T_DeleteEntity /\ AllLive /\ Others(i) = {}}

\* C3: once a DeleteEntity(e) enqueued for a live entity e has been flushed,
\* contains(e) is false
C3_EntityLiveness ==
    FlushOver =>
        \A i \in DeleteCases :
            /\ pc = "idle"
            /\ ~Entities_contains(world.entities, i.action.entity)

\* the entity values of earlier generations of the allocated indices
PriorEntities(al) ==
    {e \in (0..(MaxIndex - 1)) \X (0..MaxIndex) :
        /\ Entity_id(e) < Len(al.gens)
        /\ Entity_generation(e) < al.gens[Entity_id(e) + 1]}

\* the allocator side of C3: an entity value of an earlier generation is
\* never contained again, whatever is created later
PriorStayDead ==
    [][\A e \in PriorEntities(world.entities) :
            ~Entities_contains(world.entities', e)]_vars

\* the entity values the world may hold
EntityValues == (0..(MaxIndex - 1)) \X (0..MaxIndex)

\* has::<C>(e) answers for every live entity and every component
HasAnswers ==
    \A e \in EntityValues : \A c \in ComponentIds :
        Entities_contains(world.entities, e) => IsSome(World_has(world, e, c))

\* the set of entities the query yields
Yielded(c, d) ==
    {Query_With_Not(world, c, d)[k] : k \in 1..Len(Query_With_Not(world, c, d))}

\* the live entities with C and without D
Matching(c, d) ==
    {e \in EntityValues : /\ Entities_contains(world.entities, e)
                          /\ World_has(world, e, c) = Some(TRUE)
                          /\ World_has(world, e, d) = Some(FALSE)}

\* C4: in every state of the world where has answers, iterating the query
\* (With<C>, Without<D>) yields exactly the live entities that have C and do
\* not have D
C4_QueryRoundTrip ==
    (pc # "panicked" /\ HasAnswers) => Yielded(0, 1) = Matching(0, 1)

\* C8: while the systems of a phase run (global schedules, then scene
\* schedules), the commands they push change nothing in entities, archetypes
\* or tables
C8_Deferral ==
    [][(pc = "global" \/ pc = "scene") =>
            (world.entities' = world.entities
                /\ World_structure(world)' = World_structure(world))]_vars

\* a phase is running over a populated world with commands pending
C8_Witness ==
    /\ pc = "scene"
    /\ ~Actions_is_empty(world.actions)
    /\ Len(world.entities.gens) > 0

\* C10: a flush that finds the buffer empty, at its start or once a round
\* has ended, returns at once: it executes no action, runs no observer and
\* changes nothing in the world
C10_FlushQuiescence ==
    [][(pc = "flush" /\ DOMAIN world.actions.actions = {}) =>
            (pc' = "idle" /\ world' = world
                /\ executed' = executed /\ invoked' = invoked)]_vars

\* a flush returned after a round that executed actions
C10_Witness ==
    /\ pc = "idle"
    /\ runs > 0
    /\ executed # <<>>
    /\ Actions_is_empty(world.actions)

(***************************************************************************)
(* Properties of the scheduler.                                            *)
(***************************************************************************)
\* the access types a node reads, and those it writes
NodeReads(n) ==
    {graph.nodes[n + 1].reads[k] : k \in 1..Len(graph.nodes[n + 1].reads)}

NodeWrites(n) ==
    {graph.nodes[n + 1].writes[k] : k \in 1..Len(graph.nodes[n + 1].writes)}

\* the nodes of a layer of the hierarchy
LayerNodes(k) == {graph.hierarchy[k][i] : i \in 1..Len(graph.hierarchy[k])}

\* the index of the layer that holds a node
LayerOf(n) == CHOOSE k \in 1..Len(graph.hierarchy) : n \in LayerNodes(k)

\* C5: after build, no system of a layer writes what another system of the
\* same layer reads or writes
C5_NonAliasing ==
    gpc = "built" =>
        \A k \in 1..Len(graph.hierarchy) :
            \A s1 \in LayerNodes(k) : \A s2 \in LayerNodes(k) \ {s1} :
                NodeWrites(s1) \cap (NodeReads(s2) \cup NodeWrites(s2)) = {}

\* C6: after build, for every edge i -> j of the dependency graph the layer
\* of i comes strictly before the layer of j, whatever the order in which
\* the systems were added
C6_LayerOrder ==
    gpc = "built" =>
        \A i \in DOMAIN SystemGraph_dependency_graph(graph.nodes) :
            \A j \in SystemGraph_dependency_graph(graph.nodes)[i] :
                LayerOf(i) < LayerOf(j)

C9_PriorityOrder ==
    \A i \in 1..Len(executed) : \A j \in 1..Len(executed) :
        i < j => PRIORITY(executed[i][1]) >= PRIORITY(executed[j][1])

\* how many pushes of the run enqueued the instance
IssuedCount(instance) ==
    Cardinality({r \in issued : <<r.ty, r.action>> = instance})

\* C11: every action instance enqueued during a run (by Actions::add, by
\* Actions::append of another buffer, by an action or by an observer during
\* the flush) is executed or skipped at most once, and once World::run has
\* returned each of them was executed or skipped exactly once: none is
\* handled twice, none is dropped
C11_ExactlyOnce ==
    /\ \A instance \in DOMAIN handled : handled[instance] <= IssuedCount(instance)
    /\ (pc = "idle" /\ runs > 0) =>
            \A r \in issued :
                /\ <<r.ty, r.action>> \in DOMAIN handled
                /\ handled[<<r.ty, r.action>>] = IssuedCount(<<r.ty, r.action>>)

\* the invocations of the last dispatch that were made for the type
InvokedFor(ty) == SelectSeq(invoked, LAMBDA r : r.ty = ty)

\* the DeleteEntity executed in the last round on entities that were live
DeletedLive ==
    {k \in 1..Len(executed) :
        /\ executed[k][1] = T_DeleteEntity
        /\ \E j \in issued : /\ j.ty = T_DeleteEntity
                              /\ j.action = executed[k][2]
                              /\ j.live}

\* the round of the flush was dispatched to the observers
Dispatched == runs > 0 /\ pc \in {"flush", "idle"} /\ executed # <<>>

\* C12: once a round in which DeleteEntity(e) executed on a live entity e has
\* been dispatched, every observer registered on RemoveComponent<C>, for
\* each component C that e had, was invoked exactly once with a slice that
\* contains e, and contains(e) is false; also when several entities with C
\* were deleted in the round
C12_DeleteEmitsRemovals ==
    Dispatched =>
        \A k \in DeletedLive :
            /\ ~Entities_contains(world.entities, executed[k][2].entity)
            /\ \A c \in executed[k][3] : \A i \in 1..Len(executors) :
                    executors[i].ty = T_RemoveComponent(c) =>
                        /\ Len(InvokedFor(T_RemoveComponent(c)))
                                = Len(executors[i].systems)
                        /\ \A n \in 1..Len(InvokedFor(T_RemoveComponent(c))) :
                                Vec_contains(InvokedFor(T_RemoveComponent(c))[n].out,
                                             executed[k][2].entity)

\* the outputs of the type that the round hands to the observers: those the
\* executed actions returned, then those left in the ActionOutputs resource
RoundOutputs(ty) ==
    (IF ty \in DOMAIN round THEN round[ty] ELSE <<>>)
        \o (IF ty \in DOMAIN world.outputs THEN world.outputs[ty] ELSE <<>>)

\* C13: the dispatch of a flush round invokes, for every action type with
\* an output in the round (returned in the round or left unretired), every
\* observer registered for the type exactly once, with the outputs of the
\* type; it invokes no observer of a type without output and no other one
C13_ObserverDispatch ==
    [][(pc = "execute" /\ pc' = "flush") =>
        /\ \A i \in 1..Len(executors) :
                SelectSeq(invoked', LAMBDA r : r.ty = executors[i].ty)
                    = IF RoundOutputs(executors[i].ty) = <<>> THEN <<>>
                      ELSE [n \in 1..Len(executors[i].systems) |->
                                [ty |-> executors[i].ty,
                                 out |-> RoundOutputs(executors[i].ty)]]
        /\ \A n \in 1..Len(invoked') :
                \E i \in 1..Len(executors) : executors[i].ty = invoked'[n].ty]_vars

\* a dispatch invoked both observers of a type and none of another type
C13_Witness ==
    /\ pc = "flush"
    /\ Len(executors) = 1 /\ Len(executors[1].systems) = 2
    /\ Len(invoked) = 2
    /\ T_CreateEntity \in DOMAIN round

\* the elements of a list
Elements(list) == {list[i] : i \in 1..Len(list)}

\* the tables of the world, with the add_row(entity, row) that
\* world/lifecycle.rs calls: every column is as long as the table has rows,
\* and the table has as many rows as its archetype has member entities
WorldTableShape ==
    \A id \in DOMAIN world.tables :
        /\ \A c \in DOMAIN world.tables[id].columns :
                Len(world.tables[id].columns[c]) = Len(world.tables[id].rows)
        /\ SparseMap_contains(world.archetypes.archetypes, id) =>
                Len(world.tables[id].rows)
                    = Cardinality(DOMAIN world.archetypes.archetypes[id].entities)

\* C15: after any sequence of rows added to and removed from the table of
\* an archetype, every column of the table has the same length, which is
\* the number of rows of the table
C15_TableShape ==
    tpc = "built" =>
        \A c \in DOMAIN table.columns :
            Column_len(table.columns[c]) = Len(table.rows)

\* the components for which the row of the entity in the table holds a value
RowComponents(id, e) ==
    {c \in ComponentIds :
        /\ SparseMap_contains(world.tables, id)
        /\ IsSome(Table_get(world.tables[id], e, c))}

\* C16: the index maps every live entity to an archetype whose component
\* set is the set of components its row in the archetype's table holds
C16_ArchetypeAgreement ==
    \A e \in EntityValues :
        Entities_contains(world.entities, e) =>
            /\ IsSome(Archetypes_archetype_id(world.archetypes, e))
            /\ SparseMap_contains(world.archetypes.archetypes,
                    Archetypes_archetype_id(world.archetypes, e).val)
            /\ Elements(world.archetypes.archetypes[
                    Archetypes_archetype_id(world.archetypes, e).val].components)
                    = RowComponents(Archetypes_archetype_id(world.archetypes, e).val, e)

\* the components installed on the entity
Installed(e) == {c \in ComponentIds : World_has(world, e, c) = Some(TRUE)}

\* C17: two live entities are in the same archetype exactly when the same
\* components are installed on them
C17_ArchetypeIdentity ==
    \A e \in EntityValues : \A f \in EntityValues :
        (/\ Entities_contains(world.entities, e)
         /\ Entities_contains(world.entities, f)
         /\ IsSome(Archetypes_archetype_id(world.archetypes, e))
         /\ IsSome(Archetypes_archetype_id(world.archetypes, f))) =>
            ((Installed(e) = Installed(f))
                <=> (Archetypes_archetype_id(world.archetypes, e)
                        = Archetypes_archetype_id(world.archetypes, f)))

(***************************************************************************)
(* Properties of the registry and of the schedules.                        *)
(***************************************************************************)
\* the types registered before the first registration of the type
RegisteredBefore(ty) ==
    {registered[j][1] : j \in {k \in 1..Len(registered) :
        \A i \in 1..Len(registered) : registered[i][1] = ty => k < i}}

\* C14: every call of register for a type returns the id of the type, which
\* is the number of distinct types registered before its first registration
\* (0, 1, 2, ... in first-registration order); get_id answers that id at all
\* times, and the registry holds one entry per distinct type
C14_RegistrationIdempotent ==
    /\ \A i \in 1..Len(registered) :
            /\ registered[i][2] = Cardinality(RegisteredBefore(registered[i][1]))
            /\ Components_get_id(components, registered[i][1])
                    = Some(Cardinality(RegisteredBefore(registered[i][1])))
    /\ Components_len(components)
            = Cardinality({registered[i][1] : i \in 1..Len(registered)})

\* how many times the call of run ran the node
RanCount(node) ==
    Cardinality({n \in 1..Len(lastRun.val.nodes) : lastRun.val.nodes[n] = node})

\* C18: when run::<P>() has returned, it has run every system registered
\* for phase P, under whatever label, exactly once, and no system of
\* another phase
C18_PhaseExecution ==
    IsSome(lastRun) =>
        /\ \A n \in 1..Len(lastRun.val.nodes) : lastRun.val.nodes[n][1] = lastRun.val.phase
        /\ SparseMap_contains(schedules, lastRun.val.phase) =>
                \A label \in DOMAIN schedules[lastRun.val.phase] :
                \A id \in 0..(Len(schedules[lastRun.val.phase][label].nodes) - 1) :
                    RanCount(<<lastRun.val.phase, label, id>>) = 1

(***************************************************************************)
(* Properties of SystemGraph::build on graphs with and without cycles.     *)
(***************************************************************************)
\* the dependency graph has a cycle: a non-empty set of nodes each of which
\* is a dependent of a node of the set
HasCycle(dg) ==
    \E cyc \in SUBSET (DOMAIN dg) :
        /\ cyc # {}
        /\ \A n \in cyc : \E m \in cyc : n \in dg[m]

\* the nodes that the hierarchy places in some layer, with repetition
Placements(n) ==
    {<<k, i>> \in UNION {{<<l, c>> : c \in 1..Len(graph.hierarchy[l])} :
                            l \in 1..Len(graph.hierarchy)} :
        graph.hierarchy[k][i] = n}

\* C19: a call of build on a graph whose dependency graph has a cycle ends
\* in a reported fatal error: it neither produces a layering nor runs
\* forever
C19_CycleDetection ==
    [][(gpc = "adding" /\ gpc' # "adding"
            /\ HasCycle(SystemGraph_dependency_graph(graph.nodes)))
        => gpc' = "panicked"]_vars

\* C20: no iteration of the peel loop of build leaves the remaining set as
\* it was, so build never runs forever, and a build that returns has placed
\* every system of the schedule in exactly one layer
C20_LayeringProgress ==
    /\ gpc # "hung"
    /\ gpc = "built" =>
            \A n \in 0..(Len(graph.nodes) - 1) : Cardinality(Placements(n)) = 1

(***************************************************************************)
(* Properties of the builtin actions.                                      *)
(***************************************************************************)
\* the live entities
LiveEntities == {e \in EntityValues : Entities_contains(world.entities, e)}

\* the commands of the current run that the systems pushed
SystemIssued == {i \in issued : i.by = "system"}

\* the current run is a spawning run: its systems pushed CreateEntity
\* commands only, and no observer pushed a command
SpawnRun ==
    /\ SystemIssued # {}
    /\ \A i \in issued : /\ i.by # "observer" /\ i.by # "append"
                         /\ i.by = "system" => i.ty = T_CreateEntity

\* the entities that are live and were not when the systems pushed
Spawned == LiveEntities \ UNION {i.alive : i \in SystemIssued}

\* the components with the answers of World::component that the world
\* holds for the entity
HeldComponents(e) ==
    {<<c, World_component(world, e, c)>> :
        c \in {d \in ComponentIds : World_has(world, e, d) = Some(TRUE)}}

\* C21: once the flush of a run whose systems pushed CreateEntity commands
\* is over, one new live entity exists for each command, and it has exactly
\* the components the command carried, with the supplied values
C21_SpawnWithComponents ==
    (FlushOver /\ SpawnRun) =>
        /\ pc = "idle"
        /\ Cardinality(Spawned) = Cardinality(SystemIssued)
        /\ \A with \in CreateWith :
                Cardinality({e \in Spawned :
                        HeldComponents(e) = {<<x[1], Some(x[2])>> : x \in Elements(with)}})
                    = Cardinality({i \in SystemIssued :
                                        i.action.add_components = with})

\* the type and the instance that Actions::execute handles next
NextType == taken.actions_by_priority[Actions_cursor(taken)]
NextInstance == Head(taken.actions[NextType])

\* the entity has a row in a table of the world
HasRow(e) ==
    \E id \in DOMAIN world.tables : Table_row_of(world.tables[id], e) >= 0

\* the components for which a row of the entity holds a value
StoredComponents(e) ==
    {c \in ComponentIds :
        \E id \in DOMAIN world.tables : IsSome(Table_get(world.tables[id], e, c))}

\* the next action of the round is a RemoveComponent<C>(e) for a live
\* entity e whose row holds no C
RemoveMiss ==
    /\ pc = "execute"
    /\ Actions_cursor(taken) # 0
    /\ NextType[1] = "RemoveComponent"
    /\ Entities_contains(world.entities, NextInstance.entity)
    /\ HasRow(NextInstance.entity)
    /\ NextType[2] \notin StoredComponents(NextInstance.entity)

\* C22: a RemoveComponent<C>(e) whose turn comes while e is live and has no
\* C does nothing: no panic, entities, archetypes and tables as they were,
\* and no output added
C22_BenignMiss ==
    [][RemoveMiss =>
        /\ pc' = "execute"
        /\ world'.entities = world.entities
        /\ World_structure(world)' = World_structure(world)
        /\ round' = round
        /\ world'.outputs = world.outputs]_vars

\* the next action of the round is an AddComponent, a RemoveComponent or a
\* DeleteEntity whose target is not alive
DeadTarget ==
    /\ pc = "execute"
    /\ Actions_cursor(taken) # 0
    /\ NextType # T_CreateEntity
    /\ ~Entities_contains(world.entities, NextInstance.entity)

\* C23: an AddComponent, RemoveComponent or DeleteEntity whose turn comes
\* when its target is no longer alive is skipped: no panic, no output, and
\* entities, archetypes and tables as they were
C23_DeadTargetSkip ==
    [][DeadTarget =>
        /\ pc' = "execute"
        /\ world'.entities = world.entities
        /\ World_structure(world)' = World_structure(world)
        /\ round' = round
        /\ world'.outputs = world.outputs]_vars

(***************************************************************************)
(* Properties of the layers that SystemGraph::build makes.                 *)
(***************************************************************************)
\* the nodes of the graph that take a World reference
WorldNodes ==
    {n \in 0..(Len(graph.nodes) - 1) : "World" \in NodeReads(n)}

\* C24: build of a graph without cycle that has systems taking a World
\* reference completes, and each of these systems is the only member of
\* its layer
C24_WorldExclusivity ==
    (/\ gpc # "adding"
     /\ WorldNodes # {}
     /\ ~HasCycle(SystemGraph_dependency_graph(graph.nodes))) =>
        /\ gpc = "built"
        /\ \A n \in WorldNodes :
                \E k \in 1..Len(graph.hierarchy) : graph.hierarchy[k] = <<n>>

\* C25: after build, for every pair added as s.after(t) or as t.before(s),
\* the layer of t comes strictly before the layer of s, whatever the
\* accesses of the two systems
C25_ExplicitOrdering ==
    gpc = "built" =>
        \A pair \in ordered : LayerOf(pair[1]) < LayerOf(pair[2])

(***************************************************************************)
(* Properties of the outputs handed to the observers.                      *)
(***************************************************************************)
\* the instances of the type that the last round executed, in order
ExecutedOf(ty) == SelectSeq(executed, LAMBDA x : x[1] = ty)

\* C26: once a round has been dispatched, the slice handed to an observer
\* of an action type holds one output for each instance of the type that
\* the round executed, in the order of execution; for the types whose
\* output is the target entity the outputs are these entities
C26_OutputsPerInstance ==
    Dispatched =>
        \A n \in 1..Len(invoked) :
            /\ Len(invoked[n].out) >= Len(ExecutedOf(invoked[n].ty))
            /\ invoked[n].ty[1] # "RemoveComponent" =>
                    Len(invoked[n].out) = Len(ExecutedOf(invoked[n].ty))
            /\ invoked[n].ty # T_CreateEntity =>
                    \A k \in 1..Len(ExecutedOf(invoked[n].ty)) :
                        invoked[n].out[k] = ExecutedOf(invoked[n].ty)[k][2].entity

(***************************************************************************)
(* Properties of the selection of archetypes and of the queries.           *)
(***************************************************************************)
\* the component-id lists handed to Archetypes::archetypes
ComponentLists == {<<>>, <<0>>, <<1>>, <<0, 1>>, <<1, 0>>}

\* the archetypes that exist and whose component set holds every id of
\* `with` and no id of `without`
Selected(with, without) ==
    {id \in DOMAIN world.archetypes.archetypes :
        /\ Elements(with) \subseteq Elements(world.archetypes.archetypes[id].components)
        /\ Elements(without) \cap Elements(world.archetypes.archetypes[id].components) = {}}

\* C27: for every pair of lists (with, without), the empty `with` included,
\* the ids that Archetypes::archetypes returns are the existing archetypes
\* that hold every id of `with` and no id of `without`
C27_ArchetypeSelection ==
    \A with \in ComponentLists : \A without \in ComponentLists :
        Elements(Archetypes_archetypes(world.archetypes, with, without))
            = Selected(with, without)

\* how many times the list holds the element
Occurrences(list, x) == Cardinality({k \in 1..Len(list) : list[k] = x})

\* C28: in every state of the world where has answers, iterating a query
\* that requires two components yields every live entity that has both
\* exactly once, and no entity twice
C28_NoDuplicateRows ==
    (pc # "panicked" /\ HasAnswers) =>
        \A c \in ComponentIds : \A d \in ComponentIds \ {c} :
        \A e \in EntityValues :
            /\ Occurrences(Query_With_With(world, c, d), e) <= 1
            /\ (/\ Entities_contains(world.entities, e)
                /\ World_has(world, e, c) = Some(TRUE)
                /\ World_has(world, e, d) = Some(TRUE)) =>
                    Occurrences(Query_With_With(world, c, d), e) = 1

(***************************************************************************)
(* Properties of the migration of rows between tables.                     *)
(***************************************************************************)
\* the rows of the entity: <<table id, position>>
RowsOf(w, e) ==
    UNION {{<<id, k>> : k \in {j \in 1..Len(w.tables[id].rows) :
                                    w.tables[id].rows[j] = e}} :
            id \in DOMAIN w.tables}

\* the cells of the entity: <<component, value>> for each value a row of
\* the entity holds
Cells(w, e) ==
    {x \in ComponentIds \X Values :
        \E id \in DOMAIN w.tables :
            Table_get(w.tables[id], e, x[1]) = Some(x[2])}

\* the next action of the round adds a component to a live entity with a
\* row that does not hold it, or removes one that the row holds
Migration ==
    /\ pc = "execute"
    /\ Actions_cursor(taken) # 0
    /\ Entities_contains(world.entities, NextInstance.entity)
    /\ HasRow(NextInstance.entity)
    /\ \/ /\ NextType[1] = "AddComponent"
          /\ NextType[2] \notin StoredComponents(NextInstance.entity)
       \/ /\ NextType[1] = "RemoveComponent"
          /\ NextType[2] \in StoredComponents(NextInstance.entity)

\* the cells the entity of the next action is to have after it
MigratedCells ==
    {x \in Cells(world, NextInstance.entity) : x[1] # NextType[2]}
        \cup (IF NextType[1] = "AddComponent"
              THEN {<<NextType[2], NextInstance.component>>} ELSE {})

\* C29: when a component is added to or removed from an entity, the entity
\* has afterwards exactly one row, in the table of the destination
\* archetype; its other components keep their values, and the cells of
\* every other entity are unchanged
C29_MigrationFrame ==
    [][Migration =>
        /\ pc' = "execute"
        /\ Cardinality(RowsOf(world', NextInstance.entity)) = 1
        /\ \A r \in RowsOf(world', NextInstance.entity) :
                Elements(r[1]) = {x[1] : x \in MigratedCells}
        /\ Cells(world', NextInstance.entity) = MigratedCells
        /\ \A f \in EntityValues \ {NextInstance.entity} :
                Cells(world', f) = Cells(world, f)]_vars

(***************************************************************************)
(* Properties of Archetypes::add_component and remove_component.           *)
(***************************************************************************)
\* the archetypes whose entity set holds the entity
MemberOf(a, e) ==
    {id \in DOMAIN a.archetypes :
        \E k \in DOMAIN a.archetypes[id].entities :
            a.archetypes[id].entities[k] = e}

\* the entity is in the archetype `home` of `a`, and after add_component and
\* remove_component of the component it is there again: both calls return
\* an id, the second the id `home`, the archetype has the component list it
\* had and the entity is in its entity set
RoundTrip(a, e, c, home) ==
    \E added \in {Archetypes_add_component(a, e, c)} :
    \E removed \in {Archetypes_remove_component(added.st, e, c)} :
        /\ IsSome(added.ret)
        /\ IsSome(removed.ret)
        /\ removed.ret.val = home
        /\ Archetypes_archetype_id(removed.st, e) = Some(home)
        /\ removed.st.archetypes[home].components = a.archetypes[home].components
        /\ home \in MemberOf(removed.st, e)

\* C30: for every entity that is in an archetype and every component the
\* archetype does not have, add_component followed by remove_component
\* leaves the entity in that archetype
C30_AddRemoveRoundTrip ==
    \A e \in EntityValues : \A c \in ComponentIds :
    \A home \in MemberOf(world.archetypes, e) :
        ~Vec_contains(world.archetypes.archetypes[home].components, c) =>
            RoundTrip(world.archetypes, e, c, home)

(***************************************************************************)
(* Properties of Table::remove_row.                                        *)
(***************************************************************************)
\* the step is a call of remove_row(Row(r)) on the built table, r being a
\* row of the table that is not its last row
RemovesInnerRow(r) ==
    /\ tpc = "built"
    /\ r + 1 < Len(table.rows)
    /\ \E done \in {IdTable_remove_row(table, r)} :
        /\ table' = done.st
        /\ tpc' = IF IsPanic(done.ret) THEN "panicked"
                  ELSE IF IsSome(done.ret) THEN "built"
                  ELSE "undefined"

\* the table after the swap-remove of row r: the call returned, the id of
\* the last row is in row r and the other rows are where they were, every
\* column has one element per row, and the rows that `sparse` holds are
\* the rows of the table, each under its own index
SwapRemoved(r) ==
    /\ tpc' = "built"
    /\ Len(table'.rows) = Len(table.rows) - 1
    /\ table'.rows[r + 1] = table.rows[Len(table.rows)]
    /\ \A i \in 1..Len(table'.rows) : i # r + 1 => table'.rows[i] = table.rows[i]
    /\ \A c \in DOMAIN table'.columns :
            Column_len(table'.columns[c]) = Len(table'.rows)
    /\ \A i \in 0..MaxRows :
            SparseSet_get(table'.sparse, i)
                = IF i < Len(table'.rows) THEN Some(i) ELSE None

\* C31: remove_row of a row that is not the last puts the last row in its
\* place in `rows`, in every column and in `sparse`, removes the entry of
\* the removed row and leaves every other row as it was
C31_TableSwapRemove ==
    [][\A r \in 0..MaxRows : RemovesInnerRow(r) => SwapRemoved(r)]_vars

(***************************************************************************)
(* Properties of SparseSet.                                                *)
(***************************************************************************)
\* C32: after any sequence of insert and remove no call has panicked, and
\* for every key contains and get answer with the value of the latest
\* insert of the key, and with nothing when the key was never inserted or
\* its latest call was a remove
C32_SparseSetIsMap ==
    /\ spc = "ok"
    /\ \A k \in Keys :
        /\ SparseSet_get(sset, k) = latest[k]
        /\ SparseSet_contains(sset, k) = IsSome(latest[k])

(***************************************************************************)
(* Properties of Blob.                                                     *)
(***************************************************************************)
\* C33: in every state of a Blob made by new, with_capacity or from_layout
\* and changed by push, swap_remove, merge and clear, the length is at most
\* the capacity and every slot below the length lies inside the block of
\* capacity * stride bytes that is allocated
C33_BlobCapacity ==
    bpc = "live" =>
        /\ blob.len <= blob.capacity
        /\ \A i \in 0..(blob.len - 1) : InStorage(blob, i)

\* the step is a call of swap_remove(i) on the Blob, whose result the
\* caller holds
SwapRemoves(i) ==
    /\ bpc = "live"
    /\ single = None
    /\ single' # None
    /\ i < blob.len
    /\ blob'.len = blob.len - 1
    /\ single'.val.elems = <<blob.elems[i + 1]>>

\* how often the element is in the slots of the Blob
SlotsOf(b, e) == Cardinality({k \in 1..b.len : b.elems[k] = e})

\* C34: swap_remove(i) of a Blob of length n >= 1 with i < n is defined and
\* returns a Blob of one element, the former element i; the length goes down by 1,
\* the former last element is in slot i when i was not the last slot, the
\* other slots are as they were, and the elements left are the former
\* elements without element i
C34_BlobSwapRemove ==
    [][\A i \in 0..(MaxElems - 1) : SwapRemoves(i) =>
        /\ bpc' = "live"
        /\ single'.val.len = 1
        /\ i < blob.len - 1 => blob'.elems[i + 1] = blob.elems[blob.len]
        /\ \A k \in 1..blob'.len : k # i + 1 => blob'.elems[k] = blob.elems[k]
        /\ \A e \in Elems :
                SlotsOf(blob', e) = SlotsOf(blob, e) - (IF e = blob.elems[i + 1] THEN 1 ELSE 0)]_vars

\* the step is a call of clear() on a Blob that holds elements
Clears ==
    /\ bpc = "live"
    /\ blob.len > 0
    /\ blob'.len = 0
    /\ blob'.data = Dangling

\* C35: no destructor runs twice on an element; clear() runs the
\* destructor on every element the Blob holds; and when the Blob and the
\* Blob returned by swap_remove have been dropped, the destructor has run
\* on every element that was pushed, once
C35_DestructorDiscipline ==
    [][/\ \A e \in Elems : destructed'[e] <= 1
       /\ (Clears /\ blob.drop) =>
            \A k \in 1..blob.len : destructed'[blob.elems[k]] = 1
       /\ (bpc' = "dropped" /\ single' = None /\ blob'.drop) =>
            \A e \in 1..nelems' : destructed'[e] = 1]_vars

\* C36: the stride Blob::align_layout computes for the layout of the
\* elements is at least the size and a multiple of the alignment; it is
\* the alignment when the size is 0, so that the slots of two rows are at
\* two offsets
C36_StrideArithmetic ==
    bpc # "none" =>
        /\ blob.aligned_layout.size >= blob.layout.size
        /\ blob.aligned_layout.size % blob.layout.align = 0
        /\ blob.layout.size = 0 => blob.aligned_layout.size = blob.layout.align
        /\ \A i \in 0..MaxElems : \A j \in 0..MaxElems :
                i # j => i * blob.aligned_layout.size # j * blob.aligned_layout.size

(***************************************************************************)
(* Properties of the barrier and of the TaskPool.                          *)
(***************************************************************************)
\* C37: when every job of the row calls notify(), BarrierLock::wait
\* returns, whatever the order of the steps of the threads
C37_BarrierLiveness == (rpc = "wait") ~> (rpc = "exit")

\* C38: every job handed to execute before join is run once by a worker
\* and never twice, and a join that has begun ends with every worker
\* thread exited, whichever worker receives each None
C38_PoolShutdown ==
    /\ [](\A j \in Jobs : performed[j] <= 1)
    /\ (ppc.at = "send") ~>
            (/\ ppc.at = "joined"
             /\ \A id \in DOMAIN threads : threads[id].at = "exited"
             /\ \A j \in 1..submitted : performed[j] = 1)

(***************************************************************************)
(* Properties of the entity index of Archetypes.                           *)
(***************************************************************************)
\* C39: every entity that was added and not deleted is in the entity set
\* of one archetype, the one archetype_id returns; delete_entity of such an
\* entity returns, after it archetype_id of the entity is None, the entity
\* is in no entity set and archetype_id of every other entity is as before
C39_Membership ==
    pc # "panicked" =>
        \A e \in LiveEntities :
            /\ IsSome(Archetypes_archetype_id(world.archetypes, e))
            /\ MemberOf(world.archetypes, e)
                    = {Archetypes_archetype_id(world.archetypes, e).val}
            /\ \E deleted \in {Archetypes_delete_entity(world.archetypes, e)} :
                /\ IsSome(deleted.ret)
                /\ Archetypes_archetype_id(deleted.st, e) = None
                /\ MemberOf(deleted.st, e) = {}
                /\ \A f \in LiveEntities \ {e} :
                        Archetypes_archetype_id(deleted.st, f)
                            = Archetypes_archetype_id(world.archetypes, f)

(***************************************************************************)
(* Properties of World::has and World::component on stale handles.         *)
(***************************************************************************)
\* the entity values that were handed out and are not alive: deleted, or
\* of an earlier generation of an index that was handed out again
StaleEntities ==
    {e \in EntityValues :
        /\ Entity_id(e) < Len(world.entities.gens)
        /\ Entity_generation(e) <= world.entities.gens[Entity_id(e) + 1]
        /\ ~Entities_contains(world.entities, e)}

\* C40: for every entity value that is not alive has::<C> is false and
\* component::<C> is None, for every component C
C40_StaleHandles ==
    pc # "panicked" =>
        \A e \in StaleEntities : \A c \in ComponentIds :
            /\ World_has(world, e, c) = Some(FALSE)
            /\ World_component(world, e, c) = None
====
